---- MODULE Spec2Model ----
(***************************************************************************)
(* Verification model of the resilient agenda extraction scripts of        *)
(* scraper/kdd2025: the per-item extractor's final record assembly, the    *)
(* identity-key merge / dedupe passes, and the checkpoint / resume         *)
(* protocol of the record-level run and of the sub-session run.            *)
(*                                                                         *)
(* Text is modelled as a sequence of characters.  One character, "H",      *)
(* stands for a whole clock time with its meridiem marker ("9:00 AM");     *)
(* "h" is its lowercased form ("9:00 am").  "-" stands for any of the      *)
(* three dash characters of the time pattern, " " for any whitespace.      *)
(***************************************************************************)
EXTENDS Integers, Sequences, FiniteSets, TLC

\* ------------------------------------------------------------------ text

\* Optional[Event]: None is the empty sequence, an event e is <<e>>
None == <<>>

Some(e) == <<e>>

\* a file: absent, or present with its rows
NoFile == [exists |-> FALSE, rows |-> <<>>]

File(rows) == [exists |-> TRUE, rows |-> rows]

IsSpace(c) == c = " "

IsDash(c) == c = "-"

IsClock(c) == c \in {"H", "h"}

\* A clock time starts with a digit and ends with a letter, so both of its
\* ends are word characters for the purposes of \b.
IsWordChar(c) == ~IsSpace(c) /\ ~IsDash(c) /\ c # ";"

LowerChar(c) ==
    CASE c = "A" -> "a"
      [] c = "B" -> "b"
      [] c = "H" -> "h"
      [] OTHER -> c

lower(s) == [i \in 1..Len(s) |-> LowerChar(s[i])]

Whitespace == {" "}

RECURSIVE LStrip(_, _)
LStrip(s, drop) ==
    IF s = <<>> THEN <<>>
    ELSE IF Head(s) \in drop THEN LStrip(Tail(s), drop) ELSE s

RECURSIVE RStrip(_, _)
RStrip(s, drop) ==
    IF s = <<>> THEN <<>>
    ELSE IF s[Len(s)] \in drop THEN RStrip(SubSeq(s, 1, Len(s) - 1), drop) ELSE s

\* str.strip(): whitespace off both ends
strip(s) == RStrip(LStrip(s, Whitespace), Whitespace)

\* re.sub(r"\s+", " ", s): every run of whitespace becomes one space
RECURSIVE CollapseSpaces(_)
CollapseSpaces(s) ==
    IF s = <<>> THEN <<>>
    ELSE IF IsSpace(Head(s))
         THEN <<" ">> \o CollapseSpaces(LStrip(Tail(s), Whitespace))
         ELSE <<Head(s)>> \o CollapseSpaces(Tail(s))

nrm(s) == CollapseSpaces(strip(s))

\* str.strip(" -"): spaces and dashes off both ends
StripDashes(s) == RStrip(LStrip(s, {" ", "-"}), {" ", "-"})

\* ------------------------------------------------------------ TIME_PAT
\* \b clock \s? dash \s? clock \b, case-insensitive.
\* MatchEnd(s, i) is the index of the last character of the match that
\* starts at index i, or 0 when no match starts there.

OptSpace(s, i) == IF i <= Len(s) /\ IsSpace(s[i]) THEN i + 1 ELSE i

MatchEnd(s, i) ==
    IF i < 1 \/ i > Len(s) \/ ~IsClock(s[i]) THEN 0
    ELSE IF i > 1 /\ IsWordChar(s[i - 1]) THEN 0
    ELSE LET d == OptSpace(s, i + 1) IN
         IF d > Len(s) \/ ~IsDash(s[d]) THEN 0
         ELSE LET e == OptSpace(s, d + 1) IN
              IF e > Len(s) \/ ~IsClock(s[e]) THEN 0
              ELSE IF e < Len(s) /\ IsWordChar(s[e + 1]) THEN 0
              ELSE e

\* TIME_PAT.search(s) is not None
TimeSearch(s) == \E i \in 1..Len(s) : MatchEnd(s, i) > 0

\* TIME_PAT.fullmatch(s) is not None
TimeFullMatch(s) == s # <<>> /\ MatchEnd(s, 1) = Len(s)

\* TIME_PAT.sub("", s): leftmost non-overlapping matches removed
RECURSIVE TimeSubFrom(_, _)
TimeSubFrom(s, i) ==
    IF i > Len(s) THEN <<>>
    ELSE IF MatchEnd(s, i) > 0 THEN TimeSubFrom(s, MatchEnd(s, i) + 1)
    ELSE <<s[i]>> \o TimeSubFrom(s, i + 1)

TimeSub(s) == TimeSubFrom(s, 1)

\* TIME_PAT.search(s).group(0), for a text that has a match
RECURSIVE FirstMatchFrom(_, _)
FirstMatchFrom(s, i) ==
    IF i > Len(s) THEN <<>>
    ELSE IF MatchEnd(s, i) > 0 THEN SubSeq(s, i, MatchEnd(s, i))
    ELSE FirstMatchFrom(s, i + 1)

TimeGroup0(s) == FirstMatchFrom(s, 1)

\* ------------------------------------------------------------- bounds

\* longest card text read from the DOM, in characters
MaxTitleLen == 4

\* most events the extraction strategies yield over one run of the frame scan
MaxEvents == 3

\* most frames in the search order of the frame scan
MaxFrames == 2

\* most session cards on the agenda page of the record-level run
MaxItems == 3

\* most parent rows with a session page in the input of the sub-session run
MaxTargets == 3

\* -------------------------------------------------------------- Event

Event(title, time, location, tags, url) ==
    [title |-> title, time |-> time, location |-> location,
     tags |-> tags, url |-> url]

RECURSIVE SeqsUpTo(_, _)
SeqsUpTo(S, n) ==
    IF n = 0 THEN {<<>>}
    ELSE LET prev == SeqsUpTo(S, n - 1) IN
         prev \cup {Append(p, c) : p \in {q \in prev : Len(q) = n - 1}, c \in S}

\* --------------------------------------------------- per-item extractor
\* extract_event_from_session / extract_one.  The DOM reads are inputs:
\* selText is the text of the first title selector that matches, lineText
\* the first line of the card text that passes the length and label
\* tests, colText the text of the time column.

TitleChars == {"a", " ", "-", "H"}

CardTexts == SeqsUpTo(TitleChars, MaxTitleLen)

TimeColTexts == {<<>>, <<"H", "-", "H">>, <<"a", " ", "H", " ", "-", " ", "H">>, <<"a">>}

LocationTexts == {<<>>, <<"x">>}

UrlTexts == {<<>>, <<"u">>}

\* title: the selector cascade, then the first acceptable line
PickTitle(selText, lineText) ==
    LET t == nrm(selText) IN
    IF t # <<>> /\ ~TimeFullMatch(t) THEN t
    ELSE LET ln == nrm(lineText) IN
         IF ln # <<>> /\ ~TimeSearch(ln) THEN ln ELSE <<>>

\* time: the time column's interval, else its whole text
PickTime(colText) ==
    LET t == nrm(colText) IN
    IF TimeSearch(t) THEN TimeGroup0(t) ELSE t

\* FinishEvent without the empty-card test
FinishEvent_KeepsEmpty(title, time_str, location, tags, url) ==
    IF title # <<>> /\ TimeSearch(title)
    THEN LET t == StripDashes(nrm(TimeSub(title))) IN
         IF t = <<>> THEN None
         ELSE Some(Event(t, time_str, location, tags, url))
    ELSE Some(Event(title, time_str, location, tags, url))

\* the tail of the extractor: drop the empty card, clean the title
FinishEvent(title, time_str, location, tags, url) ==
    IF title = <<>> /\ time_str = <<>> /\ location = <<>> /\ url = <<>>
    THEN None
    ELSE IF title # <<>> /\ TimeSearch(title)
         THEN LET t == StripDashes(nrm(TimeSub(title))) IN
              IF t = <<>> THEN None
              ELSE Some(Event(t, time_str, location, tags, url))
         ELSE Some(Event(title, time_str, location, tags, url))

extract_event_from_session(selText, lineText, colText, location, url) ==
    FinishEvent(PickTitle(selText, lineText), PickTime(colText), location, <<>>, url)

\* ------------------------------------------------- identity key, merge
\* Python compares strings by code point; Ord gives the order of the
\* characters that occur in tags.

Ord(c) ==
    CASE c = " " -> 32
      [] c = "-" -> 45
      [] c = ";" -> 59
      [] c = "A" -> 65
      [] c = "B" -> 66
      [] c = "a" -> 97
      [] c = "b" -> 98
      [] c = "p" -> 112
      [] c = "q" -> 113
      [] c = "r" -> 114
      [] OTHER -> 120

RECURSIVE StrLess(_, _)
StrLess(a, b) ==
    IF b = <<>> THEN FALSE
    ELSE IF a = <<>> THEN TRUE
    ELSE IF Ord(Head(a)) # Ord(Head(b)) THEN Ord(Head(a)) < Ord(Head(b))
    ELSE StrLess(Tail(a), Tail(b))

SeqToSet(q) == {q[i] : i \in 1..Len(q)}

\* sorted(S) for a set of strings
RECURSIVE sorted(_)
sorted(S) ==
    IF S = {} THEN <<>>
    ELSE LET m == CHOOSE x \in S : \A y \in S \ {x} : StrLess(x, y) IN
         <<m>> \o sorted(S \ {m})

\* key = (nrm(e.title).lower(), nrm(e.time).lower())
EventKey(e) == <<lower(nrm(e.title)), lower(nrm(e.time))>>

\* position of the slot of key k in an insertion-ordered dict, 0 if absent
SlotOf(slots, k) ==
    IF \E i \in 1..Len(slots) : EventKey(slots[i]) = k
    THEN CHOOSE i \in 1..Len(slots) : EventKey(slots[i]) = k
    ELSE 0

\* Backfill that lets the later event win
Backfill_Overwrites(m, e) ==
    [m EXCEPT
        !.url = IF e.url # <<>> THEN e.url ELSE m.url,
        !.location = IF e.location # <<>> THEN e.location ELSE m.location,
        !.tags = IF e.tags # <<>>
                 THEN sorted(SeqToSet(m.tags \o e.tags)) ELSE m.tags]

\* the update of an existing slot m by a later event e of the same key
Backfill(m, e) ==
    [m EXCEPT
        !.url = IF m.url = <<>> /\ e.url # <<>> THEN e.url ELSE m.url,
        !.location = IF m.location = <<>> /\ e.location # <<>>
                     THEN e.location ELSE m.location,
        !.tags = IF e.tags # <<>>
                 THEN sorted(SeqToSet(m.tags \o e.tags)) ELSE m.tags]

\* one iteration of the merge loop over ev_html + ev_text
MergeStep(slots, e) ==
    LET i == SlotOf(slots, EventKey(e)) IN
    IF i > 0 THEN [slots EXCEPT ![i] = Backfill(slots[i], e)]
    ELSE Append(slots, e)

\* the whole merge loop: list(by_key.values())
RECURSIVE MergeFrom(_, _)
MergeFrom(slots, evs) ==
    IF evs = <<>> THEN slots
    ELSE MergeFrom(MergeStep(slots, Head(evs)), Tail(evs))

MergeByKey(evs) == MergeFrom(<<>>, evs)

\* the run-wide pass: keep an event unless its key was seen before
RECURSIVE DedupeFrom(_, _, _)
DedupeFrom(uniq, seen, evs) ==
    IF evs = <<>> THEN uniq
    ELSE LET e == Head(evs) IN
         IF EventKey(e) \in seen THEN DedupeFrom(uniq, seen, Tail(evs))
         ELSE DedupeFrom(Append(uniq, e), seen \cup {EventKey(e)}, Tail(evs))

\* Dedupe that lets a later event of a key replace the kept one
RECURSIVE KeepLastFrom(_, _)
KeepLastFrom(uniq, evs) ==
    IF evs = <<>> THEN uniq
    ELSE LET e == Head(evs)
             i == SlotOf(uniq, EventKey(e)) IN
         IF i > 0 THEN KeepLastFrom([uniq EXCEPT ![i] = e], Tail(evs))
         ELSE KeepLastFrom(Append(uniq, e), Tail(evs))

Dedupe_KeepsLast(evs) == KeepLastFrom(<<>>, evs)

Dedupe(evs) == DedupeFrom(<<>>, {}, evs)

\* tags joined by ";" as save_csv writes them
RECURSIVE JoinTags(_)
JoinTags(tags) ==
    IF tags = <<>> THEN <<>>
    ELSE IF Len(tags) = 1 THEN tags[1]
    ELSE tags[1] \o <<";">> \o JoinTags(Tail(tags))

\* one row of the output file
CsvRow(e) ==
    [title |-> e.title, time |-> e.time, location |-> e.location,
     tags |-> JoinTags(e.tags), url |-> e.url]

\* save_csv: the file is replaced by one row per event
save_csv(events) == [i \in 1..Len(events) |-> CsvRow(events[i])]

\* events the two extraction strategies of the frame scan can yield
Interval == <<"H", "-", "H">>

Payloads ==
    { [location |-> <<>>, url |-> <<>>, tags |-> <<>>],
      [location |-> <<"x">>, url |-> <<>>, tags |-> << <<"q">>, <<"p">> >>],
      [location |-> <<"y">>, url |-> <<"u">>, tags |-> << <<"p">> >>] }

FrameEvents ==
    {Event(t, Interval, p.location, p.tags, p.url) :
        t \in {<<"a">>, <<"A">>}, p \in Payloads}
    \cup {Event(<<"a">>, <<>>, <<"y">>, << <<"p">> >>, <<"u">>),
          Event(<<"b">>, Interval, <<>>, <<>>, <<>>)}

VARIABLES
    card,       \* the DOM reads of the card under extraction
    extracted,  \* what the extractor returned for it: None or an Event
    expc,       \* "read" before the extractor has run, "done" after
    nframes,    \* frame scan: length of the search order
    fidx,       \* frame scan: frames inspected so far
    ev_in,      \* frame scan: ev_html + ev_text of the frame under inspection
    mi,         \* frame scan: events of ev_in the merge loop has consumed
    by_key,     \* frame scan: the insertion-ordered dict of the merge loop
    all_events, \* frame scan: merged events of the frames inspected so far
    out_frames, \* frame scan: the output file
    ddpc,       \* frame scan: "scan", "merge" or "saved"
    page_cards,       \* record run: the session cards of the agenda page
    checkpoint_every, \* record run: --checkpoint-every
    ck_file,          \* record run: the .partial.csv file
    out_file,         \* record run: the output file
    seen_keys,        \* record run: keys loaded at start or collected since
    total_collected,  \* record run: events collected by this run
    item,             \* record run: the loop variable i: items behind us
    total,            \* record run: item count taken before the loop
    rpc,              \* record run: "start", "loop", "done" or "aborted"
    runs,             \* record run: 1 in the first run, 2 in the run that resumes it
    ck_at_start,      \* record run: the partial file as this run found it
    outcomes,         \* record run: what each extraction of this run gave
    targets,           \* sub run: the parent rows whose url is a session page
    sub_ck_file,       \* sub run: the .partial.csv file
    sub_out_file,      \* sub run: the output file
    processed_parents, \* sub run: parent urls loaded from the partial file
    results,           \* sub run: the accumulated SubEvent rows
    idx,               \* sub run: targets of the loop that are behind us
    processed_count,   \* sub run: parents visited by this run
    spc,               \* sub run: "start", "loop", "done" or "aborted"
    sub_ck_at_start,   \* sub run: the partial file as this run found it
    navigated,         \* sub run: parent urls this run has called page.goto on
    visited,           \* sub run: parent urls this run has counted as processed
    ckpt_parents,      \* sub run: visited, as it was at the last checkpoint written
    ckpt_at_start      \* sub run: ckpt_parents as this run found it

VARIABLES
    now,          \* clock: centiseconds of time.time()
    rl_interval,  \* RateLimiter.interval
    rl_jitter,    \* RateLimiter: <<jmin, jmax>>
    rl_last,      \* RateLimiter._last
    rl_done,      \* clock values at which the wait() calls returned
    bo_n,         \* Backoff.n
    bo_jitter,    \* Backoff: the range random.uniform draws from, in percent
    bo_sleeps     \* durations Backoff.sleep has slept since n was last zero

VARIABLES
    lp_pc,           \* main: "open", "locate", "ready", "loop", "done", "aborted", "exit"
    lp_total,        \* main: items the loop runs over
    lp_i,            \* main: items of the loop that are behind us
    lp_processed,    \* main: processed_count
    lp_rotate_every, \* main: --rotate-every
    lp_rotations,    \* main: the new_context() calls made inside the loop
    lp_log,          \* main: what happened to each item the loop has attempted
    lp_saved,        \* main: the final save_csv has been called
    lp_exit,         \* main: exit code of the process, -1 while it runs
    lp_cause,        \* main: the call whose exception ended the run, "" if none
    lp_seen,         \* main: what wait_sessions_with_watchdog returned
    lp_frame,        \* main: what the frame locator gave
    lp_deadline,     \* main: the clock at start plus --timeout
    lp_ctx           \* main: new_context() calls so far

VARIABLES
    gt_variant,      \* which readiness gate is running
    gt_pc,           \* readiness gate: "idle", "poll", "returned", "raised", "counted"
    gt_overall,      \* overall_ms / timeout_ms, in tenths of a second
    gt_elapsed,      \* time since `start` of the polling phase, in tenths of a second
    gt_last,         \* last / last_cnt
    gt_tries,        \* tries (clickurl)
    gt_frame,        \* the frame the gate polls (its parameter, rebound after a reload)
    gt_caller,       \* main: the frame `fr` the caller passed and keeps using
    gt_result,       \* the value returned
    gt_max,          \* largest count a query has returned so far, -1 if none
    gt_tick,         \* what the latest tick read and did
    gt_nticks,       \* iterations of the polling loop so far
    gt_reloads,      \* page.reload() calls so far
    gt_phases,       \* polling phases entered so far
    gt_used          \* main: the frame of the count query made after the gate

VARIABLES
    pk_pc,           \* pick_whova_frame: "idle", "loop", "returned"
    pk_retry,        \* retry_ms, in seconds
    pk_elapsed,      \* time since `start`, in seconds
    pk_frames,       \* page.frames as the returning iteration saw them
    pk_best,         \* best (the frame's id, 0 for None)
    pk_best_count,   \* best_count
    pk_prior,        \* best as the latest iteration found it
    pk_result,       \* the frame returned (its id)
    pk_how           \* the return statement taken

VARIABLES
    id_variant,      \* which main builds the sessions
    uas,             \* main: user-agent strings
    proxies,         \* main: proxy endpoints
    ua_idx,          \* main: ua_idx / ua_i
    prx_idx,         \* main: prx_idx / pr_i
    id_sessions      \* the identity each new_context() call used

VARIABLES
    tr_variant,      \* which main runs: "events" or "subs"
    tr_calls,        \* main: the automation calls, waits and writes made so far
    tr_open          \* the sessions (browser and context) that are open

VARIABLES
    cl_n,            \* cards extracted so far
    cl_frame_url,    \* frame.url
    cl_last          \* what the latest extraction met and returned

VARIABLES
    tx_pc,           \* extract_via_text: "idle", "scan", "returned"
    tx_lines,        \* lines
    tx_i,            \* i
    tx_events,       \* events
    tx_src           \* for each event, the value of i at which it was appended

exVars == <<card, extracted, expc>>

ddVars == <<nframes, fidx, ev_in, mi, by_key, all_events, out_frames, ddpc>>

rsVars == <<page_cards, checkpoint_every, ck_file, out_file,
            seen_keys, total_collected, item, total, rpc, runs, ck_at_start, outcomes>>

sbVars == <<targets, sub_ck_file, sub_out_file, processed_parents, results, idx,
            processed_count, spc, sub_ck_at_start, navigated, visited, ckpt_parents,
            ckpt_at_start>>

tmVars == <<now, rl_interval, rl_jitter, rl_last, rl_done, bo_n, bo_jitter, bo_sleeps>>

lpVars == <<lp_pc, lp_total, lp_i, lp_processed, lp_rotate_every, lp_rotations, lp_log,
            lp_saved, lp_exit, lp_cause, lp_seen, lp_frame, lp_deadline, lp_ctx>>

gtVars == <<gt_variant, gt_pc, gt_overall, gt_elapsed, gt_last, gt_tries, gt_frame,
            gt_caller, gt_result, gt_max, gt_tick, gt_nticks, gt_reloads, gt_phases,
            gt_used>>

pkVars == <<pk_pc, pk_retry, pk_elapsed, pk_frames, pk_best, pk_best_count, pk_prior,
            pk_result, pk_how>>

idVars == <<id_variant, uas, proxies, ua_idx, prx_idx, id_sessions>>

trVars == <<tr_variant, tr_calls, tr_open>>

clVars == <<cl_n, cl_frame_url, cl_last>>

txVars == <<tx_pc, tx_lines, tx_i, tx_events, tx_src>>

vars == <<exVars, ddVars, rsVars, sbVars, tmVars, lpVars, gtVars, pkVars, idVars,
          trVars, clVars, txVars>>

NoCard == [sel |-> <<>>, line |-> <<>>, col |-> <<>>, location |-> <<>>, url |-> <<>>]

ExtractIdle ==
    /\ card = NoCard
    /\ extracted = None
    /\ expc = "idle"

FramesIdle ==
    /\ nframes = 0
    /\ fidx = 0
    /\ ev_in = <<>>
    /\ mi = 0
    /\ by_key = <<>>
    /\ all_events = <<>>
    /\ out_frames = NoFile
    /\ ddpc = "idle"

RunIdle ==
    /\ page_cards = <<>>
    /\ checkpoint_every = 0
    /\ ck_file = NoFile
    /\ out_file = NoFile
    /\ seen_keys = {}
    /\ total_collected = <<>>
    /\ item = 0
    /\ total = 0
    /\ rpc = "idle"
    /\ runs = 0
    /\ ck_at_start = NoFile
    /\ outcomes = <<>>

SubIdle ==
    /\ targets = <<>>
    /\ sub_ck_file = NoFile
    /\ sub_out_file = NoFile
    /\ processed_parents = {}
    /\ results = <<>>
    /\ idx = 0
    /\ processed_count = 0
    /\ spc = "idle"
    /\ sub_ck_at_start = NoFile
    /\ navigated = <<>>
    /\ visited = {}
    /\ ckpt_parents = {}
    /\ ckpt_at_start = {}

RateIdle ==
    /\ now = 0
    /\ rl_interval = 0
    /\ rl_jitter = <<0, 0>>
    /\ rl_last = 0
    /\ rl_done = <<>>

BackoffIdle ==
    /\ bo_n = 0
    /\ bo_jitter = <<0, 0>>
    /\ bo_sleeps = <<>>

TimingIdle == RateIdle /\ BackoffIdle

NoFrame == [kind |-> "none", frame |-> "none", direct |-> FALSE, ctx |-> 0]

LoopIdle ==
    /\ lp_pc = "idle"
    /\ lp_total = 0
    /\ lp_i = 0
    /\ lp_processed = 0
    /\ lp_rotate_every = 0
    /\ lp_rotations = <<>>
    /\ lp_log = <<>>
    /\ lp_saved = FALSE
    /\ lp_exit = -1
    /\ lp_cause = ""
    /\ lp_seen = 0
    /\ lp_frame = NoFrame
    /\ lp_deadline = 0
    /\ lp_ctx = 0

\* ------------------------------------------------ extractor, one card
\* a frame handle: the main frame outlives page loads, the content frame of an
\* iframe belongs to the page load that created it
Handle(kind, load) == [kind |-> kind, load |-> load]

NoHandle == Handle("none", 0)

NoTick == [body_text |-> {}, queried |-> FALSE, cnt |-> -1]

GateIdle ==
    /\ gt_variant = "none"
    /\ gt_pc = "idle"
    /\ gt_overall = 0
    /\ gt_elapsed = 0
    /\ gt_last = -1
    /\ gt_tries = 0
    /\ gt_frame = NoHandle
    /\ gt_caller = NoHandle
    /\ gt_result = -1
    /\ gt_max = -1
    /\ gt_tick = NoTick
    /\ gt_nticks = 0
    /\ gt_reloads = 0
    /\ gt_phases = 0
    /\ gt_used = NoHandle

PickIdle ==
    /\ pk_pc = "idle"
    /\ pk_retry = 0
    /\ pk_elapsed = 0
    /\ pk_frames = <<>>
    /\ pk_best = 0
    /\ pk_best_count = -1
    /\ pk_prior = 0
    /\ pk_result = 0
    /\ pk_how = ""

IdentityIdle ==
    /\ id_variant = "none"
    /\ uas = <<>>
    /\ proxies = <<>>
    /\ ua_idx = 0
    /\ prx_idx = 0
    /\ id_sessions = <<>>

ProbeIdle == GateIdle /\ PickIdle /\ IdentityIdle

\* what an extraction leaves behind: the url the ordinary link gave, whether
\* the click fallback ran, frame.url before the click and right after it,
\* and the url of the record
ClickRun(link, attempted, old, landed, url) ==
    [link |-> link, attempted |-> attempted, old |-> old, landed |-> landed, url |-> url]

SessionIdle ==
    /\ tr_variant = "none"
    /\ tr_calls = <<>>
    /\ tr_open = {}

ClickIdle ==
    /\ cl_n = 0
    /\ cl_frame_url = <<>>
    /\ cl_last = ClickRun(<<>>, FALSE, <<>>, <<>>, <<>>)

TextIdle ==
    /\ tx_pc = "idle"
    /\ tx_lines = <<>>
    /\ tx_i = 0
    /\ tx_events = <<>>
    /\ tx_src = <<>>

FlowIdle == SessionIdle /\ ClickIdle /\ TextIdle

ExtractInit ==
    /\ card \in [sel : CardTexts, line : {<<>>, <<"a", " ", "a">>},
                 col : TimeColTexts, location : LocationTexts, url : UrlTexts]
    /\ extracted = None
    /\ expc = "read"
    /\ FramesIdle
    /\ RunIdle
    /\ SubIdle
    /\ FlowIdle
    /\ ProbeIdle
    /\ TimingIdle
    /\ LoopIdle

ExtractCard ==
    /\ expc = "read"
    /\ extracted' = extract_event_from_session(card.sel, card.line, card.col,
                                               card.location, card.url)
    /\ expc' = "done"
    /\ UNCHANGED <<card, ddVars, rsVars, sbVars, tmVars, lpVars, gtVars, pkVars, idVars, trVars, clVars, txVars>>

ExtractNext == ExtractCard

SpecExtract == ExtractInit /\ [][ExtractNext]_vars

\* ------------------------------------ extractor, titles made of pieces

\* pieces a title text is put together from
MaxTitleParts == 5

TitlePieces == {<<"a">>, <<" ">>, <<"-">>, <<"H">>, <<"H", "-", "H">>}

RECURSIVE Flatten(_)
Flatten(parts) == IF parts = <<>> THEN <<>> ELSE Head(parts) \o Flatten(Tail(parts))

\* texts the title selectors can read
PiecedTexts == {Flatten(parts) : parts \in SeqsUpTo(TitlePieces, MaxTitleParts)}

TitleInit ==
    /\ card \in [sel : PiecedTexts, line : {<<>>}, col : {<<>>, <<"H", "-", "H">>},
                 location : LocationTexts, url : UrlTexts]
    /\ extracted = None
    /\ expc = "read"
    /\ FramesIdle
    /\ RunIdle
    /\ SubIdle
    /\ FlowIdle
    /\ ProbeIdle
    /\ TimingIdle
    /\ LoopIdle

SpecTitle == TitleInit /\ [][ExtractNext]_vars

\* ------------------------------------------- frame scan (merge, dedupe)

EventLists(n) == SeqsUpTo(FrameEvents, n)

\* events yielded so far over the run
Yielded == Len(all_events) + Len(ev_in)

FramesInit ==
    /\ nframes \in 1..MaxFrames
    /\ fidx = 0
    /\ ev_in = <<>>
    /\ mi = 0
    /\ by_key = <<>>
    /\ all_events = <<>>
    /\ out_frames = NoFile
    /\ ddpc = "scan"
    /\ ExtractIdle
    /\ RunIdle
    /\ SubIdle
    /\ FlowIdle
    /\ ProbeIdle
    /\ TimingIdle
    /\ LoopIdle

\* one frame of the search order is inspected: both strategies run
InspectFrame ==
    /\ ddpc = "scan"
    /\ fidx < nframes
    /\ \E evs \in EventLists(MaxEvents - Len(all_events)) :
          ev_in' = evs
    /\ mi' = 0
    /\ by_key' = <<>>
    /\ ddpc' = "merge"
    /\ UNCHANGED <<nframes, fidx, all_events, out_frames, exVars, rsVars, sbVars, tmVars, lpVars, gtVars, pkVars, idVars, trVars, clVars, txVars>>

\* one iteration of: for e in ev_html + ev_text
MergeOne ==
    /\ ddpc = "merge"
    /\ mi < Len(ev_in)
    /\ by_key' = MergeStep(by_key, ev_in[mi + 1])
    /\ mi' = mi + 1
    /\ UNCHANGED <<nframes, fidx, ev_in, all_events, out_frames, ddpc, exVars, rsVars, sbVars, tmVars, lpVars, gtVars, pkVars, idVars, trVars, clVars, txVars>>

\* merged = list(by_key.values()); all_events.extend(merged)
ExtendAll ==
    /\ ddpc = "merge"
    /\ mi = Len(ev_in)
    /\ all_events' = all_events \o by_key
    /\ fidx' = fidx + 1
    /\ ddpc' = "scan"
    /\ UNCHANGED <<nframes, ev_in, mi, by_key, out_frames, exVars, rsVars, sbVars, tmVars, lpVars, gtVars, pkVars, idVars, trVars, clVars, txVars>>

\* the run-wide dedupe and save_csv(uniq, args.out)
SaveUniq ==
    /\ ddpc = "scan"
    /\ fidx = nframes
    /\ out_frames' = File(save_csv(Dedupe(all_events)))
    /\ ddpc' = "saved"
    /\ UNCHANGED <<nframes, fidx, ev_in, mi, by_key, all_events, exVars, rsVars, sbVars, tmVars, lpVars, gtVars, pkVars, idVars, trVars, clVars, txVars>>

FramesNext == InspectFrame \/ MergeOne \/ ExtendAll \/ SaveUniq

SpecFrames == FramesInit /\ [][FramesNext]_vars

\* ------------------------------------- record-level run (resume, checkpoint)

\* the cards an agenda page can hold: two cards of one session that differ
\* in letter case and fields, two other sessions, a card with a link only,
\* and an empty card
RunCards ==
    { [sel |-> <<"a">>, line |-> <<>>, col |-> Interval, location |-> <<>>, url |-> <<"u">>],
      [sel |-> <<"A">>, line |-> <<>>, col |-> Interval, location |-> <<"x">>, url |-> <<>>],
      [sel |-> <<"b">>, line |-> <<>>, col |-> <<>>, location |-> <<>>, url |-> <<>>],
      [sel |-> <<"a">>, line |-> <<>>, col |-> <<>>, location |-> <<"x">>, url |-> <<>>],
      [sel |-> <<>>, line |-> <<>>, col |-> <<>>, location |-> <<>>, url |-> <<"u">>],
      NoCard }

\* the values of --checkpoint-every tried
CheckpointChoices == {1, 2}

\* LoadSeenKeys that forgets to lowercase
LoadSeenKeys_NoLower(f) ==
    IF f.exists
    THEN {<<nrm(f.rows[k].title), nrm(f.rows[k].time)>> : k \in 1..Len(f.rows)}
            \ {<< <<>>, <<>> >>}
    ELSE {}

\* resume support: the keys of the rows of the partial file
LoadSeenKeys(f) ==
    IF f.exists
    THEN {EventKey(f.rows[k]) : k \in 1..Len(f.rows)} \ {<< <<>>, <<>> >>}
    ELSE {}

Outcome(kind, ev) == [kind |-> kind, ev |-> ev]

\* the checkpoint test at the foot of an iteration
CheckpointDue == checkpoint_every > 0 /\ (item + 1) % checkpoint_every = 0

RunInit ==
    /\ page_cards \in SeqsUpTo(RunCards, MaxItems)
    /\ checkpoint_every \in CheckpointChoices
    /\ ck_file = NoFile
    /\ out_file = NoFile
    /\ seen_keys = {}
    /\ total_collected = <<>>
    /\ item = 0
    /\ total = 0
    /\ rpc = "start"
    /\ runs = 1
    /\ ck_at_start = NoFile
    /\ outcomes = <<>>
    /\ ExtractIdle
    /\ FramesIdle
    /\ SubIdle
    /\ FlowIdle
    /\ ProbeIdle
    /\ TimingIdle
    /\ LoopIdle

\* main up to the loop: load the keys of the partial file, open the page,
\* wait for the sessions, count them
RunStart ==
    /\ rpc = "start"
    /\ seen_keys' = LoadSeenKeys(ck_file)
    /\ ck_at_start' = ck_file
    /\ total_collected' = <<>>
    /\ total' = Len(page_cards)
    /\ item' = 0
    /\ outcomes' = <<>>
    /\ rpc' = "loop"
    /\ UNCHANGED <<page_cards, checkpoint_every, ck_file, out_file,
                   runs, exVars, ddVars, sbVars, tmVars, lpVars, gtVars, pkVars, idVars, trVars, clVars, txVars>>

\* the first page.goto raises: the run ends in the finally clause
RunOpenFails ==
    /\ rpc = "start"
    /\ ck_at_start' = ck_file
    /\ rpc' = "aborted"
    /\ UNCHANGED <<page_cards, checkpoint_every, ck_file, out_file,
                   seen_keys, total_collected, item, total, runs, outcomes,
                   exVars, ddVars, sbVars, tmVars, lpVars, gtVars, pkVars, idVars, trVars, clVars, txVars>>

\* one iteration whose extraction returns: collect, then checkpoint
RunItem ==
    /\ rpc = "loop"
    /\ item < total
    /\ LET c == page_cards[item + 1]
           ev == extract_event_from_session(c.sel, c.line, c.col, c.location, c.url)
           fresh == ev # None /\ EventKey(ev[1]) \notin seen_keys
           collected == IF fresh THEN Append(total_collected, ev[1])
                        ELSE total_collected
       IN
       /\ outcomes' = Append(outcomes, Outcome("returned", ev))
       /\ total_collected' = collected
       /\ seen_keys' = IF fresh THEN seen_keys \cup {EventKey(ev[1])} ELSE seen_keys
       /\ ck_file' = IF CheckpointDue THEN File(save_csv(collected)) ELSE ck_file
    /\ item' = item + 1
    /\ UNCHANGED <<page_cards, checkpoint_every, out_file, total, rpc,
                   runs, ck_at_start, exVars, ddVars, sbVars, tmVars, lpVars, gtVars, pkVars, idVars, trVars, clVars, txVars>>

\* one iteration whose extraction raises PWError: back off and continue
RunItemFails ==
    /\ rpc = "loop"
    /\ item < total
    /\ outcomes' = Append(outcomes, Outcome("raised", None))
    /\ item' = item + 1
    /\ UNCHANGED <<page_cards, checkpoint_every, ck_file, out_file,
                   seen_keys, total_collected, total, rpc, runs, ck_at_start,
                   exVars, ddVars, sbVars, tmVars, lpVars, gtVars, pkVars, idVars, trVars, clVars, txVars>>

\* after the loop: save_csv(total_collected, out_path)
RunFinish ==
    /\ rpc = "loop"
    /\ item = total
    /\ out_file' = File(save_csv(total_collected))
    /\ rpc' = "done"
    /\ UNCHANGED <<page_cards, checkpoint_every, ck_file, seen_keys,
                   total_collected, item, total, runs, ck_at_start, outcomes,
                   exVars, ddVars, sbVars, tmVars, lpVars, gtVars, pkVars, idVars, trVars, clVars, txVars>>

\* the script is started again with the same --out
RunAgain ==
    /\ rpc \in {"done", "aborted"}
    /\ runs = 1
    /\ runs' = 2
    /\ rpc' = "start"
    /\ UNCHANGED <<page_cards, checkpoint_every, ck_file, out_file,
                   seen_keys, total_collected, item, total, ck_at_start, outcomes,
                   exVars, ddVars, sbVars, tmVars, lpVars, gtVars, pkVars, idVars, trVars, clVars, txVars>>

RunNext ==
    \/ RunStart
    \/ RunOpenFails
    \/ RunItem
    \/ RunItemFails
    \/ RunFinish
    \/ RunAgain

SpecRun == RunInit /\ [][RunNext]_vars

\* ----------------------------------- sub-session run (resume, checkpoint)

SubEvent(parent, title, time, location, url) ==
    [parent_title |-> nrm(parent.title), parent_time |-> nrm(parent.time),
     parent_location |-> nrm(parent.location), parent_tags |-> nrm(parent.tags),
     parent_url |-> nrm(parent.url),
     title |-> title, time |-> time, location |-> location, url |-> url]

ParentRow(url, title) ==
    [url |-> url, title |-> title, time |-> Interval, location |-> <<>>, tags |-> <<>>]

\* rows of the input CSV: two rows of one parent page whose url cells differ
\* in stray whitespace, and a second parent page
ParentRows ==
    { ParentRow(<<"P">>, <<"a">>),
      ParentRow(<<"P", " ">>, <<"a">>),
      ParentRow(<<"Q">>, <<"b">>) }

SubItem(title, time, location, url) ==
    [title |-> title, time |-> time, location |-> location, url |-> url]

\* the .session-sub elements of a parent page, as (title, time, location, url):
\* page P lists one sub-session twice and once more in another letter case
\* and room; page Q lists none
PageItems(u) ==
    IF u = <<"P">>
    THEN << SubItem(<<"s">>, Interval, <<>>, <<"v">>),
            SubItem(<<"S">>, Interval, <<"x">>, <<"v">>),
            SubItem(<<"s">>, Interval, <<>>, <<"v">>) >>
    ELSE <<>>

SubItemKey(it) == <<lower(it.title), lower(it.time), lower(it.location), lower(it.url)>>

\* extract_subsessions_html: drop the empty items, then the exact repeats
RECURSIVE UniqItems(_, _, _)
UniqItems(uniq, seen, items) ==
    IF items = <<>> THEN uniq
    ELSE LET it == Head(items) IN
         IF it.title = <<>> /\ it.time = <<>> /\ it.location = <<>> /\ it.url = <<>>
         THEN UniqItems(uniq, seen, Tail(items))
         ELSE IF SubItemKey(it) \in seen THEN UniqItems(uniq, seen, Tail(items))
         ELSE UniqItems(Append(uniq, it), seen \cup {SubItemKey(it)}, Tail(items))

extract_subsessions_html(items) == UniqItems(<<>>, {}, items)

\* load_processed_parent_urls that reads the sub-session's own url column
load_processed_parent_urls_WrongColumn(f) ==
    IF f.exists
    THEN {nrm(f.rows[k].url) : k \in 1..Len(f.rows)} \ {<<>>}
    ELSE {}

\* load_processed_parent_urls: the parent_url cells of the partial file
load_processed_parent_urls(f) ==
    IF f.exists
    THEN {nrm(f.rows[k].parent_url) : k \in 1..Len(f.rows)} \ {<<>>}
    ELSE {}

\* the final pass: key (parent_url, title.lower(), time.lower())
SubKey(e) == <<e.parent_url, lower(e.title), lower(e.time)>>

RECURSIVE SubDedupeFrom(_, _, _)
SubDedupeFrom(uniq, seen, rows) ==
    IF rows = <<>> THEN uniq
    ELSE LET e == Head(rows) IN
         IF SubKey(e) \in seen THEN SubDedupeFrom(uniq, seen, Tail(rows))
         ELSE SubDedupeFrom(Append(uniq, e), seen \cup {SubKey(e)}, Tail(rows))

SubDedupe(rows) == SubDedupeFrom(<<>>, {}, rows)

SubInit ==
    /\ targets \in SeqsUpTo(ParentRows, MaxTargets)
    /\ checkpoint_every \in CheckpointChoices
    /\ sub_ck_file = NoFile
    /\ sub_out_file = NoFile
    /\ processed_parents = {}
    /\ results = <<>>
    /\ idx = 0
    /\ processed_count = 0
    /\ spc = "start"
    /\ sub_ck_at_start = NoFile
    /\ navigated = <<>>
    /\ visited = {}
    /\ ckpt_parents = {}
    /\ ckpt_at_start = {}
    /\ runs = 1
    /\ page_cards = <<>>
    /\ ck_file = NoFile
    /\ out_file = NoFile
    /\ seen_keys = {}
    /\ total_collected = <<>>
    /\ item = 0
    /\ total = 0
    /\ rpc = "idle"
    /\ ck_at_start = NoFile
    /\ outcomes = <<>>
    /\ ExtractIdle
    /\ FramesIdle
    /\ TimingIdle
    /\ ProbeIdle
    /\ FlowIdle
    /\ LoopIdle

\* main up to the loop: the processed parents and the rows of the partial file
SubStart ==
    /\ spc = "start"
    /\ processed_parents' = load_processed_parent_urls(sub_ck_file)
    /\ results' = IF sub_ck_file.exists THEN sub_ck_file.rows ELSE <<>>
    /\ sub_ck_at_start' = sub_ck_file
    /\ idx' = 0
    /\ processed_count' = 0
    /\ navigated' = <<>>
    /\ visited' = {}
    /\ ckpt_at_start' = ckpt_parents
    /\ spc' = "loop"
    /\ UNCHANGED <<targets, sub_ck_file, sub_out_file, ckpt_parents,
                   exVars, ddVars, rsVars, tmVars, lpVars, gtVars, pkVars, idVars, trVars, clVars, txVars>>

ParentUrl == nrm(targets[idx + 1].url)

\* if parent_url in processed_parents: continue
SubSkip ==
    /\ spc = "loop"
    /\ idx < Len(targets)
    /\ ParentUrl \in processed_parents
    /\ idx' = idx + 1
    /\ UNCHANGED <<targets, sub_ck_file, sub_out_file, processed_parents, results,
                   processed_count, spc, sub_ck_at_start, navigated, visited,
                   ckpt_parents, ckpt_at_start, exVars, ddVars, rsVars, tmVars, lpVars, gtVars, pkVars, idVars, trVars, clVars, txVars>>

\* page.goto raises PWError: back off and continue
SubGotoFails ==
    /\ spc = "loop"
    /\ idx < Len(targets)
    /\ ParentUrl \notin processed_parents
    /\ navigated' = Append(navigated, ParentUrl)
    /\ idx' = idx + 1
    /\ UNCHANGED <<targets, sub_ck_file, sub_out_file, processed_parents, results,
                   processed_count, spc, sub_ck_at_start, visited, ckpt_parents,
                   ckpt_at_start, exVars, ddVars, rsVars, tmVars, lpVars, gtVars, pkVars, idVars, trVars, clVars, txVars>>

\* wait_subsessions_ready raises outside any try: the run ends in finally
SubReadyRaises ==
    /\ spc = "loop"
    /\ idx < Len(targets)
    /\ ParentUrl \notin processed_parents
    /\ navigated' = Append(navigated, ParentUrl)
    /\ spc' = "aborted"
    /\ UNCHANGED <<targets, sub_ck_file, sub_out_file, processed_parents, results,
                   idx, processed_count, sub_ck_at_start, visited, ckpt_parents,
                   ckpt_at_start, exVars, ddVars, rsVars, tmVars, lpVars, gtVars, pkVars, idVars, trVars, clVars, txVars>>

\* the parent page opens: parse it (page.content() may fail and give ""),
\* append its sub-sessions, count the parent, checkpoint
SubVisit ==
    /\ spc = "loop"
    /\ idx < Len(targets)
    /\ ParentUrl \notin processed_parents
    /\ \E html \in {PageItems(ParentUrl), <<>>} :
          LET subs == extract_subsessions_html(html)
              rows == [k \in 1..Len(subs) |->
                          SubEvent(targets[idx + 1], subs[k].title, subs[k].time,
                                   subs[k].location, subs[k].url)]
              due == checkpoint_every > 0 /\ (processed_count + 1) % checkpoint_every = 0
          IN
          /\ results' = results \o rows
          /\ sub_ck_file' = IF due THEN File(results \o rows) ELSE sub_ck_file
          /\ ckpt_parents' = IF due THEN visited \cup {ParentUrl} ELSE ckpt_parents
    /\ navigated' = Append(navigated, ParentUrl)
    /\ visited' = visited \cup {ParentUrl}
    /\ processed_count' = processed_count + 1
    /\ idx' = idx + 1
    /\ UNCHANGED <<targets, sub_out_file, processed_parents, spc, sub_ck_at_start,
                   ckpt_at_start, exVars, ddVars, rsVars, tmVars, lpVars, gtVars, pkVars, idVars, trVars, clVars, txVars>>

\* after the loop: dedupe and save_csv(uniq, out_path)
SubFinish ==
    /\ spc = "loop"
    /\ idx = Len(targets)
    /\ sub_out_file' = File(SubDedupe(results))
    /\ spc' = "done"
    /\ UNCHANGED <<targets, sub_ck_file, processed_parents, results, idx,
                   processed_count, sub_ck_at_start, navigated, visited,
                   ckpt_parents, ckpt_at_start, exVars, ddVars, rsVars, tmVars, lpVars, gtVars, pkVars, idVars, trVars, clVars, txVars>>

\* the script is started again with the same --out
SubAgain ==
    /\ spc \in {"done", "aborted"}
    /\ runs = 1
    /\ runs' = 2
    /\ spc' = "start"
    /\ UNCHANGED <<targets, sub_ck_file, sub_out_file, processed_parents, results,
                   idx, processed_count, sub_ck_at_start, navigated, visited,
                   ckpt_parents, ckpt_at_start, exVars, ddVars, page_cards, checkpoint_every,
                   ck_file, out_file, seen_keys, total_collected, item, total, rpc,
                   ck_at_start, outcomes, tmVars, lpVars, gtVars, pkVars, idVars, trVars, clVars, txVars>>

SubNext ==
    \/ SubStart
    \/ SubSkip
    \/ SubGotoFails
    \/ SubReadyRaises
    \/ SubVisit
    \/ SubFinish
    \/ SubAgain

SpecSub == SubInit /\ [][SubNext]_vars

\* either script, run and then run again over the same output path
ResumeInit == RunInit \/ SubInit

ResumeNext ==
    \/ RunStart
    \/ RunOpenFails
    \/ RunItem
    \/ RunItemFails
    \/ RunFinish
    \/ RunAgain
    \/ SubStart
    \/ SubSkip
    \/ SubGotoFails
    \/ SubReadyRaises
    \/ SubVisit
    \/ SubFinish
    \/ SubAgain

SpecResume == ResumeInit /\ [][ResumeNext]_vars

\* ------------------------------------------------------- RateLimiter

\* wait() calls of one limiter
MaxWaits == 4

\* time.time() when the limiter is constructed, in centiseconds: the wall
\* clock is far beyond the longest interval the limiter can have
Epoch == 100000

\* --max-rps, in hundredths of a request per second
RpsChoices == {0, 40, 100}

\* --jitter-ms as <<jmin, jmax>>, in centiseconds
JitterChoices == {<<0, 0>>, <<20, 80>>}

\* self.interval = 1.0 / max(0.01, max_rps), in centiseconds
RateInterval(rps) == 10000 \div (IF rps > 1 THEN rps ELSE 1)

\* time the caller spends between two calls of wait()
Elapsed == {0, 300}

\* time.sleep(d) returns after at least d
Oversleep == {0, 1}

RateDelta_IgnoresLast(interval, t, last) == interval - t

\* delta = self.interval - (now - self._last)
RateDelta(interval, t, last) == interval - (t - last)

\* the clock when a wait() entered at t returns, _last being last
WaitEndFrom(t, last, over, jit) ==
    LET delta == RateDelta(rl_interval, t, last)
        slept == IF delta > 0 THEN t + delta + over ELSE t
    IN  IF rl_jitter[2] > 0 THEN slept + jit ELSE slept

RateWaitEnd(t, over, jit) == WaitEndFrom(t, rl_last, over, jit)

RateInit ==
    /\ now = Epoch
    /\ rl_interval \in {RateInterval(r) : r \in RpsChoices}
    /\ rl_jitter \in JitterChoices
    /\ rl_last = 0
    /\ rl_done = <<>>
    /\ BackoffIdle
    /\ ExtractIdle
    /\ FramesIdle
    /\ RunIdle
    /\ SubIdle
    /\ FlowIdle
    /\ ProbeIdle
    /\ LoopIdle

\* RateLimiter.wait(), entered w after the previous statement of the caller
RateWait ==
    /\ Len(rl_done) < MaxWaits
    /\ \E w \in Elapsed, over \in Oversleep, jit \in {rl_jitter[1], rl_jitter[2]} :
          LET end == RateWaitEnd(now + w, over, jit)
          IN  /\ now' = end
              /\ rl_last' = end
              /\ rl_done' = Append(rl_done, end)
    /\ UNCHANGED <<rl_interval, rl_jitter, bo_n, bo_jitter, bo_sleeps,
                   exVars, ddVars, rsVars, sbVars, lpVars, gtVars, pkVars, idVars, trVars, clVars, txVars>>

RateNext == RateWait

SpecRate == RateInit /\ [][RateNext]_vars

\* ----------------------------------------------------------- Backoff

\* consecutive sleep() calls of one Backoff
MaxSleeps == 8

\* Backoff(base=2, factor=2, cap=90), in seconds
BackoffBase == 2

BackoffFactor == 2

BackoffCap == 90

\* what random.uniform draws from, in percent: 0.8 .. 1.2 in the event
\* scraper, 0.85 .. 1.15 in the sub-session scraper
JitterRanges == {<<80, 120>>, <<85, 115>>}

RECURSIVE Pow(_, _)
Pow(b, n) == IF n = 0 THEN 1 ELSE b * Pow(b, n - 1)

BackoffDelay_NoGrowth(n) == BackoffBase

\* min(self.cap, self.base * (self.factor ** self.n)), in seconds
BackoffDelay(n) ==
    LET raw == BackoffBase * Pow(BackoffFactor, n)
    IN  IF BackoffCap < raw THEN BackoffCap ELSE raw

\* t of sleep(), in centiseconds, for a draw of pct percent
BackoffTime(n, pct) == BackoffDelay(n) * pct

BackoffInit ==
    /\ bo_n = 0
    /\ bo_jitter \in JitterRanges
    /\ bo_sleeps = <<>>
    /\ RateIdle
    /\ ExtractIdle
    /\ FramesIdle
    /\ RunIdle
    /\ SubIdle
    /\ FlowIdle
    /\ ProbeIdle
    /\ LoopIdle

\* Backoff.sleep()
BackoffSleep ==
    /\ bo_n < MaxSleeps
    /\ \E pct \in {bo_jitter[1], 100, bo_jitter[2]} :
          bo_sleeps' = Append(bo_sleeps, BackoffTime(bo_n, pct))
    /\ bo_n' = bo_n + 1
    /\ UNCHANGED <<now, rl_interval, rl_jitter, rl_last, rl_done, bo_jitter,
                   exVars, ddVars, rsVars, sbVars, lpVars, gtVars, pkVars, idVars, trVars, clVars, txVars>>

\* Backoff.reset()
BackoffReset ==
    /\ bo_n > 0
    /\ bo_n' = 0
    /\ bo_sleeps' = <<>>
    /\ UNCHANGED <<now, rl_interval, rl_jitter, rl_last, rl_done, bo_jitter,
                   exVars, ddVars, rsVars, sbVars, lpVars, gtVars, pkVars, idVars, trVars, clVars, txVars>>

BackoffNext == BackoffSleep \/ BackoffReset

SpecBackoff == BackoffInit /\ [][BackoffNext]_vars

\* ------------------------------- event scraper: main, its control flow

\* items the loop of main runs over
MaxLoopItems == 5

\* polls of the watchdog before overall_ms runs out
MaxPolls == 2

\* min_cnt=5 of the calls of wait_sessions_with_watchdog
MinSessions == 5

\* --timeout, in centiseconds
TimeoutChoices == {100, 20000}

\* overall_ms = min(args.timeout * 1000, 90_000), in centiseconds
WatchdogCap == 9000

\* --rotate-every
RotateChoices == {0, 1, 2}

\* what the automation calls of the frame locator meet
PageStates ==
    [iframe : {"some", "none", "raise"},
     content_frame : {"frame", "none", "raise"},
     sessions : {"some", "none", "raise"},
     src : {"url", "none", "raise"},
     goto : {"ok", "raise"}]

Located(frame, direct) == [kind |-> "returned", frame |-> frame, direct |-> direct]

LocateRaised == [kind |-> "raised", frame |-> "none", direct |-> FALSE]

\* loc.count() and page.goto(src) are outside every try
get_whova_frame_or_open_direct(pg) ==
    IF pg.iframe = "raise"
    THEN LocateRaised
    ELSE LET target_frame == pg.iframe = "some" /\ pg.content_frame = "frame"
         IN  IF target_frame /\ pg.sessions = "some"
             THEN Located("iframe", FALSE)
             ELSE IF pg.src = "url"
                  THEN IF pg.goto = "raise" THEN LocateRaised ELSE Located("main", TRUE)
                  ELSE Located("main", FALSE)

LocateResults == {get_whova_frame_or_open_direct(pg) : pg \in PageStates}

\* the frame object a locator call gave, which belongs to the page of the
\* session (the c-th new_context() call) it was made in
InContext(r, c) == [kind |-> r.kind, frame |-> r.frame, direct |-> r.direct, ctx |-> c]

RelocatedFrame_Stale(old, r, c) == old

\* `fr` after the locator call of a rotation
RelocatedFrame(old, r, c) == InContext(r, c)

\* the calls of the rotation block after the old context is closed
RotationCalls == <<"new_context", "goto", "locate", "watchdog">>

\* session counts the polls of the watchdog can observe (a count that
\* raises reads as 0)
PollCounts == {0, 2, MinSessions}

WatchPolls == SeqsUpTo(PollCounts, MaxPolls)

RECURSIVE WatchFrom(_, _, _)
WatchFrom(polls, k, last) ==
    IF k > Len(polls)
    THEN IF last >= 0 THEN last ELSE 0
    ELSE IF polls[k] >= MinSessions
         THEN polls[k]
         ELSE WatchFrom(polls, k + 1, polls[k])

\* the count the watchdog returns for the counts its polls observe
wait_sessions_with_watchdog(polls) == WatchFrom(polls, 1, -1)

\* the watchdog ran until overall_ms was over
WatchTimedOut(polls) == \A k \in 1..Len(polls) : polls[k] < MinSessions

\* what main does with the count the watchdog returned: it goes on to the loop
AfterWatchdog_AbortsBelowMin(cnt) == IF cnt < MinSessions THEN "aborted" ELSE "loop"

AfterWatchdog(cnt) == "loop"

EventLoopInit ==
    /\ lp_pc = "open"
    /\ lp_total = 0
    /\ lp_i = 0
    /\ lp_processed = 0
    /\ lp_rotate_every \in RotateChoices
    /\ lp_rotations = <<>>
    /\ lp_log = <<>>
    /\ lp_saved = FALSE
    /\ lp_exit = -1
    /\ lp_cause = ""
    /\ lp_seen = 0
    /\ lp_frame = NoFrame
    /\ lp_deadline \in {Epoch + t : t \in TimeoutChoices}
    /\ lp_ctx = 0
    /\ now = Epoch
    /\ rl_interval = RateInterval(100)
    /\ rl_jitter = <<0, 0>>
    /\ rl_last = 0
    /\ rl_done = <<>>
    /\ bo_n = 0
    /\ bo_jitter = <<80, 120>>
    /\ bo_sleeps = <<>>
    /\ ExtractIdle
    /\ FramesIdle
    /\ RunIdle
    /\ SubIdle
    /\ FlowIdle
    /\ ProbeIdle

\* an exception nothing catches: the finally clause closes the browser and
\* the interpreter exits with a traceback
Uncaught(cause) ==
    /\ lp_pc' = "aborted"
    /\ lp_cause' = cause
    /\ lp_exit' = 1

\* new_context(), page.goto(args.url), rate.wait()
EvOpen ==
    /\ lp_pc = "open"
    /\ lp_pc' = "locate"
    /\ lp_ctx' = lp_ctx + 1
    /\ now' = RateWaitEnd(now, 0, 0)
    /\ rl_last' = now'
    /\ UNCHANGED <<lp_total, lp_i, lp_processed, lp_rotate_every, lp_rotations, lp_log,
                   lp_saved, lp_exit, lp_cause, lp_seen, lp_frame, lp_deadline,
                   rl_interval, rl_jitter, rl_done, bo_n, bo_jitter, bo_sleeps,
                   exVars, ddVars, rsVars, sbVars, gtVars, pkVars, idVars, trVars, clVars, txVars>>

\* the first page.goto raises
EvOpenFails ==
    /\ lp_pc = "open"
    /\ Uncaught("open")
    /\ lp_ctx' = lp_ctx + 1
    /\ UNCHANGED <<lp_total, lp_i, lp_processed, lp_rotate_every, lp_rotations, lp_log,
                   lp_saved, lp_seen, lp_frame, lp_deadline, tmVars,
                   exVars, ddVars, rsVars, sbVars, gtVars, pkVars, idVars, trVars, clVars, txVars>>

\* fr, opened_direct = get_whova_frame_or_open_direct(page)
EvLocate ==
    /\ lp_pc = "locate"
    /\ \E pg \in PageStates :
          LET r == get_whova_frame_or_open_direct(pg)
          IN  /\ lp_frame' = InContext(r, lp_ctx)
              /\ IF r.kind = "raised"
                 THEN Uncaught("locate")
                 ELSE /\ lp_pc' = "ready"
                      /\ UNCHANGED <<lp_cause, lp_exit>>
    /\ UNCHANGED <<lp_total, lp_i, lp_processed, lp_rotate_every, lp_rotations, lp_log,
                   lp_saved, lp_seen, lp_deadline, lp_ctx, tmVars,
                   exVars, ddVars, rsVars, sbVars, gtVars, pkVars, idVars, trVars, clVars, txVars>>

\* polls after which the watchdog called rate.wait()
RECURSIVE PollsBelowMin(_, _)
PollsBelowMin(polls, k) ==
    IF k > Len(polls) \/ polls[k] >= MinSessions THEN 0 ELSE 1 + PollsBelowMin(polls, k + 1)

\* the clock after w calls of rate.wait() in a row
RECURSIVE WaitsEnd(_, _, _)
WaitsEnd(t, last, w) ==
    IF w = 0 THEN t ELSE WaitsEnd(WaitEndFrom(t, last, 0, 0), WaitEndFrom(t, last, 0, 0), w - 1)

\* the watchdog, and backoff.sleep when it returned no session
Watched(polls, pct) ==
    LET cnt == wait_sessions_with_watchdog(polls)
        overall == IF lp_deadline - Epoch < WatchdogCap
                   THEN lp_deadline - Epoch ELSE WatchdogCap
        polled == WaitsEnd(now, rl_last, PollsBelowMin(polls, 1))
        t1 == IF WatchTimedOut(polls) /\ polled < now + overall
              THEN now + overall ELSE polled
    IN  /\ lp_seen' = cnt
        /\ rl_last' = IF PollsBelowMin(polls, 1) = 0 THEN rl_last ELSE t1
        /\ IF cnt <= 0
           THEN /\ bo_sleeps' = Append(bo_sleeps, BackoffTime(bo_n, pct))
                /\ bo_n' = bo_n + 1
                /\ now' = t1 + BackoffTime(bo_n, pct)
           ELSE /\ now' = t1
                /\ UNCHANGED <<bo_n, bo_sleeps>>

\* cnt = wait_sessions_with_watchdog(...); total = fr.locator(...).count()
EvReady ==
    /\ lp_pc = "ready"
    /\ \E polls \in WatchPolls, pct \in {bo_jitter[1], bo_jitter[2]} :
          /\ Watched(polls, pct)
          /\ lp_pc' = AfterWatchdog(wait_sessions_with_watchdog(polls))
    /\ lp_total' \in 0..MaxLoopItems
    /\ UNCHANGED <<lp_i, lp_processed, lp_rotate_every, lp_rotations, lp_log, lp_saved,
                   lp_exit, lp_cause, lp_frame, lp_deadline, lp_ctx,
                   rl_interval, rl_jitter, rl_done, bo_jitter,
                   exVars, ddVars, rsVars, sbVars, gtVars, pkVars, idVars, trVars, clVars, txVars>>

\* the count taken before the loop raises
EvCountFails ==
    /\ lp_pc = "ready"
    /\ \E polls \in WatchPolls, pct \in {bo_jitter[1], bo_jitter[2]} : Watched(polls, pct)
    /\ Uncaught("count")
    /\ UNCHANGED <<lp_total, lp_i, lp_processed, lp_rotate_every, lp_rotations, lp_log,
                   lp_saved, lp_frame, lp_deadline, lp_ctx,
                   rl_interval, rl_jitter, rl_done, bo_jitter,
                   exVars, ddVars, rsVars, sbVars, gtVars, pkVars, idVars, trVars, clVars, txVars>>

\* if args.rotate_every > 0 and i > 0 and i % args.rotate_every == 0
EvRotationDue == lp_rotate_every > 0 /\ lp_i > 0 /\ lp_i % lp_rotate_every = 0

\* the clock after rate.wait() at the top of the iteration and, at a rotation
\* point, after the rate.wait() that follows the navigation
EvItemStart ==
    LET t1 == RateWaitEnd(now, 0, 0)
    IN  IF EvRotationDue THEN WaitEndFrom(t1, t1, 0, 0) ELSE t1

\* the rotation at the top of an iteration, its calls not raising
EvRotated ==
    IF EvRotationDue
    THEN /\ lp_rotations' = Append(lp_rotations,
                                   [at |-> lp_i, processed |-> lp_i, ctx |-> lp_ctx + 1,
                                    calls |-> RotationCalls])
         /\ lp_ctx' = lp_ctx + 1
         /\ lp_frame' \in {RelocatedFrame(lp_frame, r, lp_ctx + 1) :
                              r \in LocateResults \ {LocateRaised}}
    ELSE UNCHANGED <<lp_rotations, lp_ctx, lp_frame>>

LogEntry(kind, at) == [i |-> lp_i, kind |-> kind, at |-> at]

\* one item of the event scraper: its index, outcome and time, the session
\* it ran in and the session in which the frame it was issued on was located
EvLogEntry(kind, at) ==
    [i |-> lp_i, kind |-> kind, at |-> at, ctx |-> lp_ctx', frame_ctx |-> lp_frame'.ctx]

\* one iteration whose extraction returns
EvItem ==
    /\ lp_pc = "loop"
    /\ lp_i < lp_total
    /\ EvRotated
    /\ now' = EvItemStart
    /\ rl_last' = now'
    /\ lp_log' = Append(lp_log, EvLogEntry("ok", EvItemStart))
    /\ lp_i' = lp_i + 1
    /\ UNCHANGED <<lp_pc, lp_total, lp_processed, lp_rotate_every, lp_saved, lp_exit,
                   lp_cause, lp_seen, lp_deadline,
                   rl_interval, rl_jitter, rl_done, bo_n, bo_jitter, bo_sleeps,
                   exVars, ddVars, rsVars, sbVars, gtVars, pkVars, idVars, trVars, clVars, txVars>>

\* one iteration whose extraction raises PWError: backoff.sleep(); continue
EvItemFails ==
    /\ lp_pc = "loop"
    /\ lp_i < lp_total
    /\ EvRotated
    /\ \E pct \in {bo_jitter[1], bo_jitter[2]} :
          /\ bo_sleeps' = Append(bo_sleeps, BackoffTime(bo_n, pct))
          /\ now' = EvItemStart + BackoffTime(bo_n, pct)
    /\ bo_n' = bo_n + 1
    /\ rl_last' = EvItemStart
    /\ lp_log' = Append(lp_log, EvLogEntry("fail", EvItemStart))
    /\ lp_i' = lp_i + 1
    /\ UNCHANGED <<lp_pc, lp_total, lp_processed, lp_rotate_every, lp_saved, lp_exit,
                   lp_cause, lp_seen, lp_deadline,
                   rl_interval, rl_jitter, rl_done, bo_jitter,
                   exVars, ddVars, rsVars, sbVars, gtVars, pkVars, idVars, trVars, clVars, txVars>>

\* at a rotation point page.goto or the frame locator raises
EvRotateFails ==
    /\ lp_pc = "loop"
    /\ lp_i < lp_total
    /\ EvRotationDue
    /\ Uncaught("rotate")
    /\ \E n \in {2, 3} :
          lp_rotations' = Append(lp_rotations,
                                 [at |-> lp_i, processed |-> lp_i, ctx |-> lp_ctx + 1,
                                  calls |-> SubSeq(RotationCalls, 1, n)])
    /\ lp_ctx' = lp_ctx + 1
    /\ now' = RateWaitEnd(now, 0, 0)
    /\ rl_last' = now'
    /\ UNCHANGED <<lp_total, lp_i, lp_processed, lp_rotate_every, lp_log, lp_saved,
                   lp_seen, lp_frame, lp_deadline,
                   rl_interval, rl_jitter, rl_done, bo_n, bo_jitter, bo_sleeps,
                   exVars, ddVars, rsVars, sbVars, gtVars, pkVars, idVars, trVars, clVars, txVars>>

\* save_csv(total_collected, out_path) and the end of main
EvFinish ==
    /\ lp_pc = "loop"
    /\ lp_i = lp_total
    /\ lp_saved' = TRUE
    /\ lp_pc' = "done"
    /\ lp_exit' = 0
    /\ UNCHANGED <<lp_total, lp_i, lp_processed, lp_rotate_every, lp_rotations, lp_log,
                   lp_cause, lp_seen, lp_frame, lp_deadline, lp_ctx, tmVars,
                   exVars, ddVars, rsVars, sbVars, gtVars, pkVars, idVars, trVars, clVars, txVars>>

EventLoopNext ==
    \/ EvOpen
    \/ EvOpenFails
    \/ EvLocate
    \/ EvReady
    \/ EvCountFails
    \/ EvItem
    \/ EvItemFails
    \/ EvRotateFails
    \/ EvFinish

SpecEventLoop == EventLoopInit /\ [][EventLoopNext]_vars

\* --------------------------- sub-session scraper: main, its control flow

\* headers an input CSV can have
HeaderChoices == {<<"title", "url">>, <<"Title", "Link">>, <<"HREF">>, <<"title", "time">>, <<>>}

\* h.lower() for the header names above
HeaderLower(h) ==
    CASE h = "Title" -> "title"
      [] h = "Link" -> "link"
      [] h = "HREF" -> "href"
      [] OTHER -> h

FirstCandidate(header, cands) ==
    LET hits == SelectSeq(cands, LAMBDA c : \E k \in 1..Len(header) : HeaderLower(header[k]) = c)
    IN  IF hits = <<>>
        THEN None
        ELSE Some(header[CHOOSE k \in 1..Len(header) :
                            /\ HeaderLower(header[k]) = hits[1]
                            /\ \A m \in 1..(k - 1) : HeaderLower(header[m]) # hits[1]])

\* the column of the header named url, link or href, whatever its case
find_url_column(header) == FirstCandidate(header, <<"url", "link", "href">>)

\* the input of a run: whether --in exists, its header, how many of its rows
\* are session pages, whether --list-targets was given
SubInputs ==
    [exists : BOOLEAN, header : HeaderChoices, ntargets : 0..MaxLoopItems,
     list_targets : BOOLEAN]

SubLoopInit ==
    /\ lp_pc = "setup"
    /\ lp_total = 0
    /\ lp_i = 0
    /\ lp_processed = 0
    /\ lp_rotate_every \in RotateChoices
    /\ lp_rotations = <<>>
    /\ lp_log = <<>>
    /\ lp_saved = FALSE
    /\ lp_exit = -1
    /\ lp_cause = ""
    /\ lp_seen = 0
    /\ lp_frame = NoFrame
    /\ lp_deadline = 0
    /\ lp_ctx = 0
    /\ now = Epoch
    /\ rl_interval = RateInterval(40)
    /\ rl_jitter = <<0, 0>>
    /\ rl_last = 0
    /\ rl_done = <<>>
    /\ bo_n = 0
    /\ bo_jitter = <<85, 115>>
    /\ bo_sleeps = <<>>
    /\ ExtractIdle
    /\ FramesIdle
    /\ RunIdle
    /\ SubIdle
    /\ FlowIdle
    /\ ProbeIdle

\* main up to the loop: sys.exit(1) without the input or without a url
\* column, return without targets or with --list-targets, else new_context()
SbSetup ==
    /\ lp_pc = "setup"
    /\ \E inp \in SubInputs :
          IF ~inp.exists
          THEN /\ lp_pc' = "exit" /\ lp_exit' = 1 /\ lp_cause' = "no_input"
               /\ UNCHANGED <<lp_total, lp_ctx>>
          ELSE IF find_url_column(inp.header) = None
          THEN /\ lp_pc' = "exit" /\ lp_exit' = 1 /\ lp_cause' = "no_url_column"
               /\ UNCHANGED <<lp_total, lp_ctx>>
          ELSE IF inp.ntargets = 0 \/ inp.list_targets
          THEN /\ lp_pc' = "exit" /\ lp_exit' = 0 /\ lp_total' = inp.ntargets
               /\ UNCHANGED <<lp_cause, lp_ctx>>
          ELSE /\ lp_pc' = "loop" /\ lp_total' = inp.ntargets /\ lp_ctx' = lp_ctx + 1
               /\ UNCHANGED <<lp_exit, lp_cause>>
    /\ UNCHANGED <<lp_i, lp_processed, lp_rotate_every, lp_rotations, lp_log, lp_saved,
                   lp_seen, lp_frame, lp_deadline, tmVars, exVars, ddVars, rsVars, sbVars, gtVars, pkVars, idVars, trVars, clVars, txVars>>

\* if parent_url in processed_parents: continue
SbSkip ==
    /\ lp_pc = "loop"
    /\ lp_i < lp_total
    /\ lp_i' = lp_i + 1
    /\ lp_log' = Append(lp_log, LogEntry("skip", now))
    /\ UNCHANGED <<lp_pc, lp_total, lp_processed, lp_rotate_every, lp_rotations, lp_saved,
                   lp_exit, lp_cause, lp_seen, lp_frame, lp_deadline, lp_ctx, tmVars,
                   exVars, ddVars, rsVars, sbVars, gtVars, pkVars, idVars, trVars, clVars, txVars>>

\* if args.rotate_every > 0 and processed_count > 0
\*    and processed_count % args.rotate_every == 0
SbRotationDue ==
    lp_rotate_every > 0 /\ lp_processed > 0 /\ lp_processed % lp_rotate_every = 0

\* the rotation of an iteration that was not skipped
SbRotated ==
    IF SbRotationDue
    THEN /\ lp_rotations' = Append(lp_rotations,
                                   [at |-> lp_i, processed |-> lp_processed,
                                    ctx |-> lp_ctx + 1,
                                    calls |-> SubSeq(RotationCalls, 1, 1)])
         /\ lp_ctx' = lp_ctx + 1
    ELSE UNCHANGED <<lp_rotations, lp_ctx>>

\* page.goto raises PWError: backoff.sleep(); rate.wait(); continue
SbGotoFailed ==
    /\ lp_pc = "loop"
    /\ lp_i < lp_total
    /\ SbRotated
    /\ \E pct \in {bo_jitter[1], bo_jitter[2]} :
          /\ bo_sleeps' = Append(bo_sleeps, BackoffTime(bo_n, pct))
          /\ now' = RateWaitEnd(now + BackoffTime(bo_n, pct), 0, 0)
    /\ bo_n' = bo_n + 1
    /\ rl_last' = now'
    /\ lp_log' = Append(lp_log, LogEntry("fail", now))
    /\ lp_i' = lp_i + 1
    /\ UNCHANGED <<lp_pc, lp_total, lp_processed, lp_rotate_every, lp_saved, lp_exit,
                   lp_cause, lp_seen, lp_frame, lp_deadline,
                   rl_interval, rl_jitter, rl_done, bo_jitter,
                   exVars, ddVars, rsVars, sbVars, gtVars, pkVars, idVars, trVars, clVars, txVars>>

\* a locator count of wait_subsessions_ready raises: nothing catches it
SbReadyRaised ==
    /\ lp_pc = "loop"
    /\ lp_i < lp_total
    /\ SbRotated
    /\ now' = RateWaitEnd(now, 0, 0)
    /\ rl_last' = now'
    /\ Uncaught("ready")
    /\ UNCHANGED <<lp_total, lp_i, lp_processed, lp_rotate_every, lp_log, lp_saved,
                   lp_seen, lp_frame, lp_deadline,
                   rl_interval, rl_jitter, rl_done, bo_n, bo_jitter, bo_sleeps,
                   exVars, ddVars, rsVars, sbVars, gtVars, pkVars, idVars, trVars, clVars, txVars>>

\* an iteration that reaches processed_count += 1 and the closing rate.wait()
SbVisited ==
    /\ lp_pc = "loop"
    /\ lp_i < lp_total
    /\ SbRotated
    /\ LET t1 == RateWaitEnd(now, 0, 0)
       IN  now' = WaitEndFrom(t1, t1, 0, 0)
    /\ rl_last' = now'
    /\ lp_processed' = lp_processed + 1
    /\ lp_log' = Append(lp_log, LogEntry("ok", now))
    /\ lp_i' = lp_i + 1
    /\ UNCHANGED <<lp_pc, lp_total, lp_rotate_every, lp_saved, lp_exit,
                   lp_cause, lp_seen, lp_frame, lp_deadline,
                   rl_interval, rl_jitter, rl_done, bo_n, bo_jitter, bo_sleeps,
                   exVars, ddVars, rsVars, sbVars, gtVars, pkVars, idVars, trVars, clVars, txVars>>

\* the dedupe and save_csv(uniq, out_path) after the loop
SbFinished ==
    /\ lp_pc = "loop"
    /\ lp_i = lp_total
    /\ lp_saved' = TRUE
    /\ lp_pc' = "done"
    /\ lp_exit' = 0
    /\ UNCHANGED <<lp_total, lp_i, lp_processed, lp_rotate_every, lp_rotations, lp_log,
                   lp_cause, lp_seen, lp_frame, lp_deadline, lp_ctx, tmVars,
                   exVars, ddVars, rsVars, sbVars, gtVars, pkVars, idVars, trVars, clVars, txVars>>

SubLoopNext ==
    \/ SbSetup
    \/ SbSkip
    \/ SbGotoFailed
    \/ SbReadyRaised
    \/ SbVisited
    \/ SbFinished

SpecSubLoop == SubLoopInit /\ [][SubLoopNext]_vars

\* ===================================================== claims C1 .. C5

\* the identity key as the claims state it: title and time, each
\* whitespace-collapsed and lowercased
IdentityKey(r) == <<lower(nrm(r.title)), lower(nrm(r.time))>>

NonEmptyFields(r) == {f \in {"title", "time", "location", "url", "tags"} : r[f] # <<>>}

\* C1: every record the per-item extractor returns has at least one of
\* title, time, location, url non-empty; a card whose four fields are all
\* empty yields no record.
C1_ReturnedRecordNotEmpty ==
    expc = "done" =>
        /\ extracted # None =>
              \/ extracted[1].title # <<>>
              \/ extracted[1].time # <<>>
              \/ extracted[1].location # <<>>
              \/ extracted[1].url # <<>>
        /\ ( /\ PickTitle(card.sel, card.line) = <<>>
             /\ PickTime(card.col) = <<>>
             /\ card.location = <<>>
             /\ card.url = <<>> ) => extracted = None

\* C1 witness: a record was returned whose only non-empty field is its url
C1_Witness_UrlOnlyRecord ==
    /\ expc = "done"
    /\ extracted # None
    /\ extracted[1].title = <<>>
    /\ extracted[1].time = <<>>
    /\ extracted[1].location = <<>>
    /\ extracted[1].url # <<>>

\* indexes of all_events that are the first occurrence of their key
FirstIndexes ==
    {i \in 1..Len(all_events) :
        \A j \in 1..(i - 1) : IdentityKey(all_events[j]) # IdentityKey(all_events[i])}

\* the k-th smallest first-occurrence index
KthFirst(k) ==
    CHOOSE i \in FirstIndexes : Cardinality({j \in FirstIndexes : j <= i}) = k

\* C2: the final output holds no two records of the same identity key,
\* the record kept for a key is the first of that key in the input of the
\* pass, and kept records are in their original relative order.
C2_OutputKeepsFirstOfEachKey ==
    ddpc = "saved" =>
        /\ \A i, j \in 1..Len(out_frames.rows) :
              i # j => IdentityKey(out_frames.rows[i]) # IdentityKey(out_frames.rows[j])
        /\ Len(out_frames.rows) = Cardinality(FirstIndexes)
        /\ \A k \in 1..Len(out_frames.rows) :
              out_frames.rows[k] = CsvRow(all_events[KthFirst(k)])

\* C2 witness: the output was written after a later record of a key already
\* seen, differing from the first in letter case, was dropped, and two keys
\* remain
C2_Witness_DuplicateDropped ==
    /\ ddpc = "saved"
    /\ Len(out_frames.rows) >= 2
    /\ \E i, j \in 1..Len(all_events) :
          /\ i < j
          /\ IdentityKey(all_events[i]) = IdentityKey(all_events[j])
          /\ all_events[i].title # all_events[j].title

\* the merge loop of the frame under inspection has consumed all of ev_in
MergeDone == ddpc = "merge" /\ mi = Len(ev_in)

\* C3: the merge of L ++ L equals the merge of L, the dedupe of L ++ L
\* equals the dedupe of L, and each pass leaves its own output unchanged.
C3_Orig_MergeIdempotent ==
    MergeDone =>
        /\ MergeByKey(ev_in \o ev_in) = by_key
        /\ MergeByKey(by_key) = by_key
        /\ Dedupe(by_key \o by_key) = Dedupe(by_key)
        /\ Dedupe(Dedupe(by_key)) = Dedupe(by_key)

\* events of ev_in that share the key of slot m
GroupOf(m) == {i \in 1..Len(ev_in) : IdentityKey(ev_in[i]) = IdentityKey(m)}

\* C4: a slot merged from two or more same-key records has as non-empty
\* fields the union of its inputs' non-empty fields, and as tags the
\* sorted union of its inputs' tags.
C4_Orig_MergedIsSortedUnion ==
    MergeDone =>
        \A s \in 1..Len(by_key) :
            LET g == GroupOf(by_key[s]) IN
            Cardinality(g) >= 2 =>
                /\ NonEmptyFields(by_key[s]) = UNION {NonEmptyFields(ev_in[i]) : i \in g}
                /\ by_key[s].tags = sorted(UNION {SeqToSet(ev_in[i].tags) : i \in g})

\* C5: in one iteration of the merge loop a new key is appended as it is,
\* and a later occurrence of a key leaves every non-empty field of its slot
\* as it was, fills an empty field only with its own value, keeps every tag
\* of the slot and touches no other slot.
C5_BackfillOnly ==
    [][ (ddpc = "merge" /\ mi' = mi + 1) =>
          LET e == ev_in[mi + 1]
              hit == {i \in 1..Len(by_key) : IdentityKey(by_key[i]) = IdentityKey(e)}
          IN
          /\ hit = {} => by_key' = Append(by_key, e)
          /\ hit # {} => Len(by_key') = Len(by_key)
          /\ \A i \in 1..Len(by_key) :
                /\ i \notin hit => by_key'[i] = by_key[i]
                /\ \A f \in {"title", "time", "location", "url"} :
                      /\ by_key[i][f] # <<>> => by_key'[i][f] = by_key[i][f]
                      /\ by_key'[i][f] \in {by_key[i][f], e[f]}
                /\ SeqToSet(by_key[i].tags) \subseteq SeqToSet(by_key'[i].tags)
                /\ SeqToSet(by_key'[i].tags) \subseteq
                       SeqToSet(by_key[i].tags) \cup SeqToSet(e.tags)
      ]_vars

\* C5 witness: a later occurrence has been merged into a slot whose
\* location it contradicted and whose empty url it filled
C5_Witness_LaterOccurrenceMerged ==
    /\ ddpc = "merge"
    /\ mi >= 2
    /\ \E s \in 1..Len(by_key) : \E i, j \in 1..mi :
          /\ i < j
          /\ IdentityKey(ev_in[i]) = IdentityKey(by_key[s])
          /\ IdentityKey(ev_in[j]) = IdentityKey(by_key[s])
          /\ ev_in[i].location # <<>>
          /\ ev_in[j].location # <<>>
          /\ ev_in[i].location # ev_in[j].location
          /\ by_key[s].location = ev_in[i].location
          /\ ev_in[i].url = <<>>
          /\ by_key[s].url = ev_in[j].url
          /\ by_key[s].url # <<>>

\* ==================================================== claims C6 .. C10

\* the keys the record-level run loads from a partial file: the identity
\* keys of its rows, the all-empty key excepted
PartialKeys(f) ==
    {IdentityKey(f.rows[k]) : k \in 1..Len(f.rows)} \ {<< <<>>, <<>> >>}

\* the events the extractor has returned in this run, in order
ReturnedEvents ==
    LET hits == SelectSeq(outcomes, LAMBDA o : o.kind = "returned" /\ o.ev # None) IN
    [k \in 1..Len(hits) |-> hits[k].ev[1]]

KeysOf(evs) == {IdentityKey(evs[k]) : k \in 1..Len(evs)}

\* C6: a resumed record-level run collects exactly the returned events whose
\* key was not loaded from the partial file; no event whose key was loaded
\* is appended to the collected results.
C6_ResumeCollectsOnlyNew ==
    rpc \in {"loop", "done"} =>
        /\ KeysOf(total_collected) \cap PartialKeys(ck_at_start) = {}
        /\ KeysOf(total_collected) = KeysOf(ReturnedEvents) \ PartialKeys(ck_at_start)
        /\ Cardinality(KeysOf(total_collected)) = Len(total_collected)
        /\ SeqToSet(total_collected) \subseteq SeqToSet(ReturnedEvents)

\* C6 witness: the partial file held two keys, the page yielded those two
\* and a third, and the resumed run ended having collected one event
C6_Witness_ThirdKeyOnly ==
    /\ runs = 2
    /\ rpc = "done"
    /\ Cardinality(PartialKeys(ck_at_start)) = 2
    /\ PartialKeys(ck_at_start) \subseteq KeysOf(ReturnedEvents)
    /\ Cardinality(KeysOf(ReturnedEvents)) = 3
    /\ Len(total_collected) = 1

\* the parent keys the sub-session run finds in a partial file
PartialParents(f) == {nrm(f.rows[k].parent_url) : k \in 1..Len(f.rows)} \ {<<>>}

C8_Orig_FinalHoldsPartialAndNew ==
    /\ (rpc = "done" /\ \A n \in 1..Len(outcomes) : outcomes[n].kind = "returned") =>
          /\ out_file.exists
          /\ \A k \in 1..Len(ck_at_start.rows) :
                \E r \in 1..Len(out_file.rows) :
                    IdentityKey(out_file.rows[r]) = IdentityKey(ck_at_start.rows[k])
          /\ \A k \in 1..Len(total_collected) :
                \E r \in 1..Len(out_file.rows) :
                    out_file.rows[r] = CsvRow(total_collected[k])
    /\ spc = "done" =>
          /\ sub_out_file.exists
          /\ \A k \in 1..Len(sub_ck_at_start.rows) :
                \E r \in 1..Len(sub_out_file.rows) :
                    SubKey(sub_out_file.rows[r]) = SubKey(sub_ck_at_start.rows[k])
          /\ \A k \in 1..Len(results) :
                \E r \in 1..Len(sub_out_file.rows) :
                    SubKey(sub_out_file.rows[r]) = SubKey(results[k])

\* C9: whenever the number of processed items is a positive multiple of
\* checkpoint_every, the partial file holds exactly the results accumulated
\* so far, whether or not the last item's extraction succeeded.
C9_Orig_CheckpointAfterEveryKth ==
    (rpc = "loop" /\ item > 0 /\ item % checkpoint_every = 0) =>
        ck_file = File(save_csv(total_collected))

\* C10: when the sub-session run resumes, every parent processed before the
\* previous run's last checkpoint is in the loaded set of processed parents
\* and is not navigated again.
C10_Orig_CheckpointedParentsLoaded ==
    (runs = 2 /\ spc \in {"loop", "done", "aborted"}) =>
        /\ ckpt_at_start \subseteq processed_parents
        /\ SeqToSet(navigated) \cap ckpt_at_start = {}


\* =================================================== claims C11 .. C20

\* C11: with zero jitter, the wait() calls of one limiter return at least
\* one interval apart, so any N consecutive ones span at least (N-1) intervals.
C11_WaitsSpacedByInterval ==
    rl_jitter[2] = 0 =>
        \A a \in 1..Len(rl_done) : \A b \in a..Len(rl_done) :
            rl_done[b] - rl_done[a] >= (b - a) * rl_interval

\* three back-to-back waits without jitter, returning exactly one interval apart
C11_Witness_BackToBackWaits ==
    /\ rl_jitter[2] = 0
    /\ Len(rl_done) >= 3
    /\ rl_done[3] - rl_done[1] = 2 * rl_interval

\* the delay before jitter is still below the cap at the k-th sleep of a run
GrowsBelowCap(k) == BackoffBase * Pow(BackoffFactor, k - 1) < BackoffCap

\* C12 as stated: each sleep of a run of consecutive sleeps is at least the
\* previous one up to and including the sleep at which the cap is reached.
C12_Orig_NonDecreasingUpToCap ==
    \A k \in 2..Len(bo_sleeps) :
        GrowsBelowCap(k - 1) => bo_sleeps[k] >= bo_sleeps[k - 1]

\* C12: in a run of consecutive sleeps, each sleep whose delay before jitter
\* is still below the cap is at least the previous one; with the jitter range
\* of the sub-session scraper so is the first sleep at the cap.
C12_NonDecreasingBelowCap ==
    \A k \in 2..Len(bo_sleeps) :
        (GrowsBelowCap(k) \/ (bo_jitter = <<85, 115>> /\ GrowsBelowCap(k - 1)))
            => bo_sleeps[k] >= bo_sleeps[k - 1]

\* a run that has grown to the cap, whose first capped sleep is shorter than
\* the sleep before it
C12_Witness_CappedSleepShorter ==
    \E k \in 2..Len(bo_sleeps) :
        /\ ~GrowsBelowCap(k)
        /\ GrowsBelowCap(k - 1)
        /\ bo_sleeps[k] < bo_sleeps[k - 1]
        /\ \A m \in 2..(k - 1) : bo_sleeps[m] > bo_sleeps[m - 1]

\* C13 as stated: after an item has been processed successfully the attempt
\* counter of the backoff is zero (stated for the runs whose watchdog saw a
\* session, in which only a failed item makes the backoff sleep).
C13_Orig_CounterZeroAfterSuccess ==
    (lp_pc = "loop" /\ lp_seen > 0 /\ lp_log # <<>> /\ lp_log[Len(lp_log)].kind = "ok")
        => bo_n = 0

\* the watchdog has returned fewer sessions than the minimum
LowCount ==
    /\ lp_pc \in {"loop", "done", "aborted"}
    /\ lp_cause \notin {"open", "locate"}
    /\ lp_seen < MinSessions

C16_Orig_LocatorNeverRaises == lp_frame.kind # "raised"

\* C18 as stated: once the item loop runs, no exception of an automation call
\* ends the run.
C18_Orig_LoopNeverAborted ==
    lp_pc = "aborted" => (lp_i = 0 /\ lp_cause \in {"open", "locate", "count"})

\* C20 as stated: no item is attempted once the clock has reached the
\* deadline of the run.
C20_Orig_NoAttemptAfterDeadline ==
    \A k \in 1..Len(lp_log) : lp_log[k].at < lp_deadline

\* C17 as stated: a rotation happens only when the count of processed items
\* is a positive multiple of rotate_every, and at most once per multiple.
C17_Orig_OneRotationPerMultiple ==
    \A a \in 1..Len(lp_rotations) :
        /\ lp_rotations[a].processed > 0
        /\ lp_rotations[a].processed % lp_rotate_every = 0
        /\ \A b \in (a + 1)..Len(lp_rotations) :
              lp_rotations[b].processed # lp_rotations[a].processed

\* C19 as stated: the process exits with a non-zero code only when the input
\* file is missing or has no url, link or href column.
C19_Orig_NonZeroOnlyOnSetupFailure ==
    /\ lp_exit > 0 => lp_cause \in {"no_input", "no_url_column"}
    /\ lp_pc = "done" => lp_exit = 0

\* C14 as stated: no record the extractor returns has a title that still
\* contains a match of the time pattern.
C14_Orig_NoIntervalLeftInTitle ==
    (expc = "done" /\ extracted # None) => ~TimeSearch(extracted[1].title)

\* ---------------------------------------------------------------------
\* The readiness gates: wait_sessions_with_watchdog of the resilient and
\* the click-through scraper, wait_sessions and wait_for_items.  Time is in
\* tenths of a second.
\* ---------------------------------------------------------------------

GateVariants == {"resilient", "clickurl", "css", "roles"}

MaxOverall == 15

\* overall_ms / timeout_ms of a call
OverallChoices == {MaxOverall \div 2, MaxOverall}

\* reload_tries of the click-through watchdog
ReloadTries == 2

\* page.wait_for_timeout(800) while the placeholder shows
PlaceholderWait == 8

\* page.wait_for_timeout(700) after a count below the minimum
ScrollWait == 7

\* frame.page.wait_for_timeout(800) of wait_sessions
CssWait == 8

\* step of wait_for_items
RolesStep == 15

\* the count query raised
CountRaises == -1

\* what one count query can give
CountOutcomes == PollCounts \cup {CountRaises}

\* innerText of the body as evaluate returned it, as the set of phrases in
\* it; the empty text is also what a failed evaluate is replaced by
BodyTexts ==
    { {}, {"Loading"}, {"Loading", "Whova"}, {"Loading", "Powered by Whova"},
      {"Powered by Whova"} }

\* s in body_text
Contains(text, s) == s \in text \/ (s = "Whova" /\ "Powered by Whova" \in text)

\* the marker string the gate looks for next to "Loading"
PlatformMarker(v) == IF v = "clickurl" THEN "Powered by Whova" ELSE "Whova"

\* gates that read the body text before counting
ReadsBodyText(v) == v \in {"resilient", "clickurl"}

IsPlaceholder_Never(v, text) == FALSE

\* the test that makes a tick wait and `continue`
IsPlaceholder(v, text) ==
    ReadsBodyText(v) /\ Contains(text, "Loading") /\ Contains(text, PlatformMarker(v))

\* gates that return 0 when the count query raises
CountFailReturns(v) == v \in {"css", "roles"}

\* the wait that ends a tick with a count below the minimum; rate.wait()
\* of the resilient gate returns as soon as the interval has passed
TickWaits(v) ==
    IF v = "resilient" THEN {1, ScrollWait}
    ELSE IF v = "clickurl" THEN {ScrollWait}
    ELSE IF v = "css" THEN {CssWait}
    ELSE {RolesStep}

\* condition of the polling loop
LoopCond == IF gt_variant = "roles" THEN gt_elapsed <= gt_overall ELSE gt_elapsed < gt_overall

InitialLast(v) == IF v = "roles" THEN 0 ELSE -1

Larger(a, b) == IF a >= b THEN a ELSE b

\* value returned when the loop condition fails
TimeoutValue(v, last) == IF v = "roles" THEN last ELSE IF last >= 0 THEN last ELSE 0

FirstHandles == {Handle("main", 0), Handle("iframe", 0)}

\* what get_whova_frame_or_open_direct gives after the n-th page load
Relocated(n) == {Handle("main", 0), Handle("iframe", n)}

GateInit ==
    /\ gt_variant \in GateVariants
    /\ gt_pc = "poll"
    /\ gt_overall \in OverallChoices
    /\ gt_elapsed = 0
    /\ gt_last = InitialLast(gt_variant)
    /\ gt_tries = 0
    /\ gt_frame \in FirstHandles
    /\ gt_caller = gt_frame
    /\ gt_result = -1
    /\ gt_max = -1
    /\ gt_tick = NoTick
    /\ gt_nticks = 0
    /\ gt_reloads = 0
    /\ gt_phases = 1
    /\ gt_used = NoHandle
    /\ ExtractIdle
    /\ FramesIdle
    /\ RunIdle
    /\ SubIdle
    /\ FlowIdle
    /\ TimingIdle
    /\ LoopIdle
    /\ PickIdle
    /\ IdentityIdle

\* a tick on which "Loading" and the marker are in the body text
GatePlaceholderTick ==
    /\ gt_pc = "poll"
    /\ LoopCond
    /\ \E text \in BodyTexts :
          /\ IsPlaceholder(gt_variant, text)
          /\ gt_tick' = [body_text |-> text, queried |-> FALSE, cnt |-> -1]
    /\ gt_elapsed' = gt_elapsed + PlaceholderWait
    /\ gt_nticks' = gt_nticks + 1
    /\ UNCHANGED <<gt_variant, gt_pc, gt_overall, gt_last, gt_tries, gt_frame, gt_caller,
                   gt_result, gt_max, gt_reloads, gt_phases, gt_used>>
    /\ UNCHANGED <<exVars, ddVars, rsVars, sbVars, tmVars, lpVars, pkVars, idVars, trVars, clVars, txVars>>

\* a tick whose count is below the minimum
GateCountBelowMin ==
    /\ gt_pc = "poll"
    /\ LoopCond
    /\ \E text \in BodyTexts, c \in PollCounts, w \in TickWaits(gt_variant) :
          /\ ~IsPlaceholder(gt_variant, text)
          /\ c < MinSessions
          /\ gt_tick' = [body_text |-> text, queried |-> TRUE, cnt |-> c]
          /\ gt_last' = c
          /\ gt_max' = Larger(gt_max, c)
          /\ gt_elapsed' = gt_elapsed + w
    /\ gt_nticks' = gt_nticks + 1
    /\ UNCHANGED <<gt_variant, gt_pc, gt_overall, gt_tries, gt_frame, gt_caller,
                   gt_result, gt_reloads, gt_phases, gt_used>>
    /\ UNCHANGED <<exVars, ddVars, rsVars, sbVars, tmVars, lpVars, pkVars, idVars, trVars, clVars, txVars>>

\* a tick whose count query raises in a gate that reads it as 0
GateCountFailsAsZero ==
    /\ gt_pc = "poll"
    /\ LoopCond
    /\ ~CountFailReturns(gt_variant)
    /\ \E text \in BodyTexts, w \in TickWaits(gt_variant) :
          /\ ~IsPlaceholder(gt_variant, text)
          /\ gt_tick' = [body_text |-> text, queried |-> TRUE, cnt |-> CountRaises]
          /\ gt_elapsed' = gt_elapsed + w
    /\ gt_last' = 0
    /\ gt_nticks' = gt_nticks + 1
    /\ UNCHANGED <<gt_variant, gt_pc, gt_overall, gt_tries, gt_frame, gt_caller,
                   gt_result, gt_max, gt_reloads, gt_phases, gt_used>>
    /\ UNCHANGED <<exVars, ddVars, rsVars, sbVars, tmVars, lpVars, pkVars, idVars, trVars, clVars, txVars>>

\* a tick whose count query raises in a gate that returns 0 for it
GateCountFailReturns ==
    /\ gt_pc = "poll"
    /\ LoopCond
    /\ CountFailReturns(gt_variant)
    /\ \E text \in BodyTexts :
          /\ ~IsPlaceholder(gt_variant, text)
          /\ gt_tick' = [body_text |-> text, queried |-> TRUE, cnt |-> CountRaises]
    /\ gt_pc' = "returned"
    /\ gt_result' = 0
    /\ gt_nticks' = gt_nticks + 1
    /\ UNCHANGED <<gt_variant, gt_overall, gt_elapsed, gt_last, gt_tries, gt_frame,
                   gt_caller, gt_max, gt_reloads, gt_phases, gt_used>>
    /\ UNCHANGED <<exVars, ddVars, rsVars, sbVars, tmVars, lpVars, pkVars, idVars, trVars, clVars, txVars>>

\* a tick whose count reaches the minimum
GateSatisfied ==
    /\ gt_pc = "poll"
    /\ LoopCond
    /\ \E text \in BodyTexts, c \in PollCounts :
          /\ ~IsPlaceholder(gt_variant, text)
          /\ c >= MinSessions
          /\ gt_tick' = [body_text |-> text, queried |-> TRUE, cnt |-> c]
          /\ gt_last' = IF gt_variant = "roles" THEN gt_last ELSE c
          /\ gt_max' = Larger(gt_max, c)
          /\ gt_result' = c
    /\ gt_pc' = "returned"
    /\ gt_nticks' = gt_nticks + 1
    /\ UNCHANGED <<gt_variant, gt_overall, gt_elapsed, gt_tries, gt_frame, gt_caller,
                   gt_reloads, gt_phases, gt_used>>
    /\ UNCHANGED <<exVars, ddVars, rsVars, sbVars, tmVars, lpVars, pkVars, idVars, trVars, clVars, txVars>>

\* the loop condition fails in a gate without reloads
GateTimeout ==
    /\ gt_pc = "poll"
    /\ ~LoopCond
    /\ gt_variant # "clickurl"
    /\ gt_pc' = "returned"
    /\ gt_result' = TimeoutValue(gt_variant, gt_last)
    /\ UNCHANGED <<gt_variant, gt_overall, gt_elapsed, gt_last, gt_tries, gt_frame,
                   gt_caller, gt_max, gt_tick, gt_nticks, gt_reloads, gt_phases, gt_used>>
    /\ UNCHANGED <<exVars, ddVars, rsVars, sbVars, tmVars, lpVars, pkVars, idVars, trVars, clVars, txVars>>

\* the click-through watchdog after a polling phase: reload, locate the
\* frame again, and poll again while tries <= reload_tries
GateReloadPolls ==
    /\ gt_pc = "poll"
    /\ ~LoopCond
    /\ gt_variant = "clickurl"
    /\ gt_tries + 1 <= ReloadTries
    /\ gt_tries' = gt_tries + 1
    /\ gt_reloads' = gt_reloads + 1
    /\ gt_frame' \in Relocated(gt_reloads + 1)
    /\ gt_elapsed' = 0
    /\ gt_last' = -1
    /\ gt_phases' = gt_phases + 1
    /\ UNCHANGED <<gt_variant, gt_pc, gt_overall, gt_caller, gt_result, gt_max, gt_tick,
                   gt_nticks, gt_used>>
    /\ UNCHANGED <<exVars, ddVars, rsVars, sbVars, tmVars, lpVars, pkVars, idVars, trVars, clVars, txVars>>

\* the same after the last polling phase: reload, locate, `return 0`
GateReloadGivesUp ==
    /\ gt_pc = "poll"
    /\ ~LoopCond
    /\ gt_variant = "clickurl"
    /\ gt_tries + 1 > ReloadTries
    /\ gt_tries' = gt_tries + 1
    /\ gt_reloads' = gt_reloads + 1
    /\ gt_frame' \in Relocated(gt_reloads + 1)
    /\ gt_pc' = "returned"
    /\ gt_result' = 0
    /\ UNCHANGED <<gt_variant, gt_overall, gt_elapsed, gt_last, gt_caller, gt_max,
                   gt_tick, gt_nticks, gt_phases, gt_used>>
    /\ UNCHANGED <<exVars, ddVars, rsVars, sbVars, tmVars, lpVars, pkVars, idVars, trVars, clVars, txVars>>

\* page.reload or the locator's page.goto raises out of the watchdog
GateReloadRaises ==
    /\ gt_pc = "poll"
    /\ ~LoopCond
    /\ gt_variant = "clickurl"
    /\ gt_tries' = gt_tries + 1
    /\ gt_reloads' = gt_reloads + 1
    /\ gt_pc' = "raised"
    /\ UNCHANGED <<gt_variant, gt_overall, gt_elapsed, gt_last, gt_frame, gt_caller,
                   gt_result, gt_max, gt_tick, gt_nticks, gt_phases, gt_used>>
    /\ UNCHANGED <<exVars, ddVars, rsVars, sbVars, tmVars, lpVars, pkVars, idVars, trVars, clVars, txVars>>

\* main after the gate: the item count is taken on the caller's `fr`
GateCallerCount ==
    /\ gt_pc = "returned"
    /\ gt_pc' = "counted"
    /\ gt_used' = gt_caller
    /\ UNCHANGED <<gt_variant, gt_overall, gt_elapsed, gt_last, gt_tries, gt_frame,
                   gt_caller, gt_result, gt_max, gt_tick, gt_nticks, gt_reloads,
                   gt_phases>>
    /\ UNCHANGED <<exVars, ddVars, rsVars, sbVars, tmVars, lpVars, pkVars, idVars, trVars, clVars, txVars>>

GateNext ==
    \/ GatePlaceholderTick
    \/ GateCountBelowMin
    \/ GateCountFailsAsZero
    \/ GateCountFailReturns
    \/ GateSatisfied
    \/ GateTimeout
    \/ GateReloadPolls
    \/ GateReloadGivesUp
    \/ GateReloadRaises
    \/ GateCallerCount

SpecGate == GateInit /\ [][GateNext]_vars

\* ---------------------------------------------------------------------
\* The frame locator pick_whova_frame of the roles scraper.  A frame is
\* its index in page.frames; the first is the main frame.  Time is in
\* seconds.
\* ---------------------------------------------------------------------

MaxPickFrames == 2

MaxPickRounds == 2

\* best_count >= 10
DensityMin == 10

\* frames are told apart by an id; the main frame is one object for the
\* life of the page, a child frame that is replaced comes back under
\* another id
MaxFrameIds == 3

FrameIds == 1..MaxFrameIds

MainFrame == 1

\* retry_ms of a call
RetryChoices == 0..MaxPickRounds

\* what get_by_role("listitem").count() can give for a frame
ItemCounts == {CountRaises, 0, 3, DensityMin}

\* one frame as an iteration sees it: which frame it is, whether its url
\* holds "whova", "agenda" or "widget", and the outcome of its count query.
\* An iteration that finds a hint returns before any count query, so the
\* counts of its frames are left at 0; an iteration that queries the counts
\* found no hint.
HintViews == [id : FrameIds, hint : BOOLEAN, cnt : {0}]

CountViews == [id : FrameIds, hint : {FALSE}, cnt : ItemCounts]

\* page.frames of one iteration: distinct frames, the main frame among
\* them, in the order the page lists them
Snapshots ==
    {s \in UNION {[1..n -> HintViews] \cup [1..n -> CountViews] : n \in 1..MaxPickFrames} :
        /\ \A a, b \in 1..Len(s) : a # b => s[a].id # s[b].id
        /\ \E k \in 1..Len(s) : s[k].id = MainFrame}

\* the ids of the frames of an enumeration
IdsOf(frames) == {frames[k].id : k \in 1..Len(frames)}

\* the view an enumeration holds of the frame with this id
FrameOf(frames, id) == frames[CHOOSE k \in 1..Len(frames) : frames[k].id = id]

\* whovas
Hinted(frames) == {i \in 1..Len(frames) : frames[i].hint}

\* whovas[0]
FirstHinted(frames) ==
    frames[CHOOSE i \in Hinted(frames) : \A j \in Hinted(frames) : i <= j].id

\* cnt of a frame, 0 when the query raised
ItemCount(view) == IF view.cnt = CountRaises THEN 0 ELSE view.cnt

\* the `for f in frames` loop from frame k on, as <<best, best_count>>
\* a scan that raises best_count but keeps a frame once it has one
RECURSIVE ScanBest_KeepsFrame(_, _, _, _)
ScanBest_KeepsFrame(frames, k, best, best_count) ==
    IF k > Len(frames) THEN <<best, best_count>>
    ELSE IF ItemCount(frames[k]) > best_count
         THEN ScanBest_KeepsFrame(frames, k + 1,
                                  IF best = 0 THEN frames[k].id ELSE best,
                                  ItemCount(frames[k]))
         ELSE ScanBest_KeepsFrame(frames, k + 1, best, best_count)

RECURSIVE ScanBest(_, _, _, _)
ScanBest(frames, k, best, best_count) ==
    IF k > Len(frames) THEN <<best, best_count>>
    ELSE IF ItemCount(frames[k]) > best_count
         THEN ScanBest(frames, k + 1, frames[k].id, ItemCount(frames[k]))
         ELSE ScanBest(frames, k + 1, best, best_count)

\* `best or page.main_frame`
BestOrMain(best) == IF best # 0 THEN best ELSE MainFrame

PickInit ==
    /\ pk_pc = "loop"
    /\ pk_retry \in RetryChoices
    /\ pk_elapsed = 0
    /\ pk_frames = <<>>
    /\ pk_best = 0
    /\ pk_best_count = -1
    /\ pk_prior = 0
    /\ pk_result = 0
    /\ pk_how = ""
    /\ ExtractIdle
    /\ FramesIdle
    /\ RunIdle
    /\ SubIdle
    /\ FlowIdle
    /\ TimingIdle
    /\ LoopIdle
    /\ GateIdle
    /\ IdentityIdle

\* an iteration that finds a url hint
PickHint ==
    /\ pk_pc = "loop"
    /\ pk_elapsed < pk_retry
    /\ \E snap \in Snapshots :
          /\ Hinted(snap) # {}
          /\ pk_frames' = snap
          /\ pk_result' = FirstHinted(snap)
    /\ pk_prior' = pk_best
    /\ pk_pc' = "returned"
    /\ pk_how' = "hint"
    /\ UNCHANGED <<pk_retry, pk_elapsed, pk_best, pk_best_count>>
    /\ UNCHANGED <<exVars, ddVars, rsVars, sbVars, tmVars, lpVars, gtVars, idVars, trVars, clVars, txVars>>

\* an iteration without hint whose best count reaches the threshold
PickDense ==
    /\ pk_pc = "loop"
    /\ pk_elapsed < pk_retry
    /\ \E snap \in Snapshots :
          LET b == ScanBest(snap, 1, pk_best, pk_best_count) IN
          /\ Hinted(snap) = {}
          /\ b[1] # 0 /\ b[2] >= DensityMin
          /\ pk_frames' = snap
          /\ pk_best' = b[1]
          /\ pk_best_count' = b[2]
          /\ pk_result' = b[1]
    /\ pk_prior' = pk_best
    /\ pk_pc' = "returned"
    /\ pk_how' = "density"
    /\ UNCHANGED <<pk_retry, pk_elapsed>>
    /\ UNCHANGED <<exVars, ddVars, rsVars, sbVars, tmVars, lpVars, gtVars, idVars, trVars, clVars, txVars>>

\* an iteration without hint whose best count is below the threshold;
\* `frames` is bound anew at the top of the next iteration before any use,
\* so nothing of this enumeration but best and best_count is carried over
PickRetry ==
    /\ pk_pc = "loop"
    /\ pk_elapsed < pk_retry
    /\ \E snap \in Snapshots :
          LET b == ScanBest(snap, 1, pk_best, pk_best_count) IN
          /\ Hinted(snap) = {}
          /\ ~(b[1] # 0 /\ b[2] >= DensityMin)
          /\ pk_frames' = <<>>
          /\ pk_best' = b[1]
          /\ pk_best_count' = b[2]
    /\ pk_prior' = pk_best
    /\ pk_elapsed' = pk_elapsed + 1
    /\ UNCHANGED <<pk_pc, pk_retry, pk_result, pk_how>>
    /\ UNCHANGED <<exVars, ddVars, rsVars, sbVars, tmVars, lpVars, gtVars, idVars, trVars, clVars, txVars>>

\* the deadline has passed
PickDeadline ==
    /\ pk_pc = "loop"
    /\ pk_elapsed >= pk_retry
    /\ pk_result' = BestOrMain(pk_best)
    /\ pk_pc' = "returned"
    /\ pk_how' = "deadline"
    /\ UNCHANGED <<pk_retry, pk_elapsed, pk_frames, pk_best, pk_best_count, pk_prior>>
    /\ UNCHANGED <<exVars, ddVars, rsVars, sbVars, tmVars, lpVars, gtVars, idVars, trVars, clVars, txVars>>

PickNext ==
    \/ PickHint
    \/ PickDense
    \/ PickRetry
    \/ PickDeadline

SpecPick == PickInit /\ [][PickNext]_vars

\* ---------------------------------------------------------------------
\* The session identity: next_round_robin and new_context of the two
\* resilient scrapers.
\* ---------------------------------------------------------------------

MaxContexts == 6

MaxUas == 3

MaxProxies == 2

\* Python's None where a string is expected
Nothing == "None"

UaNames == <<"ua1", "ua2", "ua3", "ua4">>

ProxyNames == <<"px1", "px2", "px3">>

\* uas: the lines of --ua-list, or the built-in list, never empty
UaLists == {SubSeq(UaNames, 1, n) : n \in 1..MaxUas}

\* proxies: the lines of --proxy-list, empty without the option
ProxyLists == {SubSeq(ProxyNames, 1, n) : n \in 0..MaxProxies}

next_round_robin_Sticks(seq, i) ==
    IF seq = <<>> THEN <<Nothing, i>>
    ELSE <<seq[IF i + 1 <= Len(seq) THEN i + 1 ELSE Len(seq)], i + 1>>

\* next_round_robin / next_rr, as <<element, new cursor>>
next_round_robin(seq, i) ==
    IF seq = <<>> THEN <<Nothing, i>>
    ELSE <<seq[(i % Len(seq)) + 1], i + 1>>

IdentityInit ==
    /\ id_variant \in {"events", "subs"}
    /\ uas \in UaLists
    /\ proxies \in ProxyLists
    /\ ua_idx = 0
    /\ prx_idx = 0
    /\ id_sessions = <<>>
    /\ ExtractIdle
    /\ FramesIdle
    /\ RunIdle
    /\ SubIdle
    /\ FlowIdle
    /\ TimingIdle
    /\ LoopIdle
    /\ GateIdle
    /\ PickIdle

\* new_context of the event scraper: the proxy cursor is touched only
\* when there are proxies
NewContextEvents ==
    /\ id_variant = "events"
    /\ Len(id_sessions) < MaxContexts
    /\ LET u == next_round_robin(uas, ua_idx)
           p == IF proxies # <<>> THEN next_round_robin(proxies, prx_idx)
                ELSE <<Nothing, prx_idx>>
       IN /\ ua_idx' = u[2]
          /\ prx_idx' = p[2]
          /\ id_sessions' = Append(id_sessions, [ua |-> u[1], proxy |-> p[1]])
    /\ UNCHANGED <<id_variant, uas, proxies>>
    /\ UNCHANGED <<exVars, ddVars, rsVars, sbVars, tmVars, lpVars, gtVars, pkVars, trVars, clVars, txVars>>

\* new_context of the sub-session scraper
NewContextSubs ==
    /\ id_variant = "subs"
    /\ Len(id_sessions) < MaxContexts
    /\ LET u == next_round_robin(uas, ua_idx)
           p == next_round_robin(proxies, prx_idx)
       IN /\ ua_idx' = u[2]
          /\ prx_idx' = p[2]
          /\ id_sessions' = Append(id_sessions, [ua |-> u[1], proxy |-> p[1]])
    /\ UNCHANGED <<id_variant, uas, proxies>>
    /\ UNCHANGED <<exVars, ddVars, rsVars, sbVars, tmVars, lpVars, gtVars, pkVars, trVars, clVars, txVars>>

IdentityNext ==
    \/ NewContextEvents
    \/ NewContextSubs

SpecIdentity == IdentityInit /\ [][IdentityNext]_vars

\* ---------------------------------------------------------------------
\* Frame scan: extract_via_text, the scan of the visible text of a frame.
\* A line is a sequence of pieces: "H" a clock time with its AM/PM, "D" a
\* day name, "L" one of the words location, room, hall, "V" the word venue,
\* "T" the word time, "W" a run of 172 letters, and single characters.
\* ---------------------------------------------------------------------

\* most lines that follow the title in the long texts tried
MaxFollowing == 6

\* most lines of the short texts tried
MaxTextLines == 2

\* 8 <= len(title) <= 180
TitleMin == 8

TitleMax == 180

\* scan_limit = min(i + 6, len(lines))
ScanSpan == 6

\* characters a piece stands for
Width(c) ==
    CASE c \in {"H", "h"} -> 7
      [] c = "D" -> 3
      [] c \in {"L", "T"} -> 4
      [] c = "V" -> 5
      [] c = "W" -> TitleMax - TitleMin
      [] OTHER -> 1

\* len(s)
RECURSIVE TextLen(_)
TextLen(s) == IF s = <<>> THEN 0 ELSE Width(Head(s)) + TextLen(Tail(s))

\* \w for the pieces above
TextWordChar(c) == c \notin {" ", "-", ":"}

\* \b at position i
Boundary(s, i) ==
    LET before == i > 1 /\ TextWordChar(s[i - 1])
        after == i <= Len(s) /\ TextWordChar(s[i])
    IN  before # after

RECURSIVE SkipSpaces(_, _)
SkipSpaces(s, i) == IF i <= Len(s) /\ IsSpace(s[i]) THEN SkipSpaces(s, i + 1) ELSE i

\* TIME_PAT of the frame scan: \b day? \s* clock \s? dash \s? clock.
\* FrameTimeEnd(s, i) is the index of the last piece of the match that
\* starts at index i, or 0 when no match starts there.
FrameTimeEnd(s, i) ==
    IF i < 1 \/ i > Len(s) \/ ~Boundary(s, i) THEN 0
    ELSE LET c == SkipSpaces(s, IF s[i] = "D" THEN i + 1 ELSE i) IN
         IF c > Len(s) \/ ~IsClock(s[c]) THEN 0
         ELSE LET d == OptSpace(s, c + 1) IN
              IF d > Len(s) \/ ~IsDash(s[d]) THEN 0
              ELSE LET e == OptSpace(s, d + 1) IN
                   IF e > Len(s) \/ ~IsClock(s[e]) THEN 0 ELSE e

\* TIME_PAT.search(s) is not None
FrameTimeSearch(s) == \E i \in 1..Len(s) : FrameTimeEnd(s, i) > 0

\* TIME_PAT.search(s).group(0): the leftmost match
FrameTimeGroup0(s) ==
    LET i == CHOOSE i \in 1..Len(s) :
                 /\ FrameTimeEnd(s, i) > 0
                 /\ \A k \in 1..(i - 1) : FrameTimeEnd(s, k) = 0
    IN  SubSeq(s, i, FrameTimeEnd(s, i))

\* LOC_PAT: \b (location|room|hall|venue) \s* :? \s* (.+) can match at i
LocAt(s, i) ==
    /\ s[i] \in {"L", "V"}
    /\ i = 1 \/ ~TextWordChar(s[i - 1])
    /\ i < Len(s)

\* LOC_PAT.search(s) is not None
LocSearch(s) == \E i \in 1..Len(s) : LocAt(s, i)

\* LOC_PAT.search(s).group(2): what follows the word, the spaces and the
\* colon; when they run to the end of the line the last character is given
\* back to (.+)
LocGroup2(s) ==
    LET i == CHOOSE i \in 1..Len(s) : LocAt(s, i) /\ \A k \in 1..(i - 1) : ~LocAt(s, k)
        a == SkipSpaces(s, i + 1)
        b == IF a <= Len(s) /\ s[a] = ":" THEN a + 1 ELSE a
        c == SkipSpaces(s, b)
    IN  SubSeq(s, IF c <= Len(s) THEN c ELSE Len(s), Len(s))

\* title.lower().startswith(("location:", "room:", "hall:", "time:"))
StartsWithLabel(s) == Len(s) >= 2 /\ s[1] \in {"L", "T"} /\ s[2] = ":"

\* the test a line passes to be tried as a title
IsTitleCandidate(title) ==
    /\ TitleMin <= TextLen(title)
    /\ TextLen(title) <= TitleMax
    /\ ~StartsWithLabel(lower(title))

\* a scan that runs to the end of the text
ScanLimit_ToEnd(i, n) == n

\* scan_limit
ScanLimit(i, n) == IF i + ScanSpan < n THEN i + ScanSpan ELSE n

\* the inner while loop from j on, as <<time_str, location, j>>; i and j
\* count from 0 as in the code
RECURSIVE ScanLines(_, _, _, _, _)
ScanLines(lines, j, limit, time_str, location) ==
    IF j >= limit THEN <<time_str, location, j>>
    ELSE LET ln == lines[j + 1]
             t == IF time_str = <<>> /\ FrameTimeSearch(ln)
                  THEN FrameTimeGroup0(ln) ELSE time_str
             l == IF location = <<>> /\ LocSearch(ln)
                  THEN nrm(LocGroup2(ln)) ELSE location
         IN  ScanLines(lines, j + 1, limit, t, l)

Letters(n) == [k \in 1..n |-> "a"]

\* the lines of the short texts
TextLines ==
    { Letters(TitleMin), Letters(TitleMin - 1),
      <<"W">> \o Letters(TitleMin), <<"W">> \o Letters(TitleMin + 1),
      <<"H", "-", "H">>,
      <<"D", " ", "H", " ", "-", " ", "H">>,
      <<"L", ":", " ", "a">>,
      <<"L", ":", " ", "a", "a", "a", "a", "a">>,
      <<"V", ":", " ", "a", "a", "a">>,
      <<"T", ":", " ", "H", "-", "H">>,
      <<"a", "a", "a", "a", " ", "L", " ", "a", "a">>,
      <<"L">>,
      <<" ">> }

\* the texts tried: every short text, and a title followed by lines that
\* are a short word or a time interval
TextDocs ==
    SeqsUpTo(TextLines, MaxTextLines)
       \cup {<<Letters(TitleMin)>> \o f :
                f \in SeqsUpTo({<<"a", "a", "a">>, <<"H", "-", "H">>}, MaxFollowing)}

\* lines = [nrm(x) for x in frame_text.splitlines()] without the empty ones
TextLinesOf(doc) == SelectSeq([k \in 1..Len(doc) |-> nrm(doc[k])], LAMBDA ln : ln # <<>>)

TextInit ==
    /\ tx_pc = "scan"
    /\ tx_lines \in {TextLinesOf(doc) : doc \in TextDocs}
    /\ tx_i = 0
    /\ tx_events = <<>>
    /\ tx_src = <<>>
    /\ ExtractIdle
    /\ FramesIdle
    /\ RunIdle
    /\ SubIdle
    /\ TimingIdle
    /\ LoopIdle
    /\ ProbeIdle
    /\ SessionIdle
    /\ ClickIdle

\* what the scan after line i finds
TextFound == ScanLines(tx_lines, tx_i + 1, ScanLimit(tx_i, Len(tx_lines)), <<>>, <<>>)

\* an iteration on a title candidate with a time or a location after it
TextEmit ==
    /\ tx_pc = "scan"
    /\ tx_i < Len(tx_lines)
    /\ IsTitleCandidate(tx_lines[tx_i + 1])
    /\ TextFound[1] # <<>> \/ TextFound[2] # <<>>
    /\ tx_events' = Append(tx_events,
                           Event(tx_lines[tx_i + 1], nrm(TextFound[1]), nrm(TextFound[2]),
                                 <<>>, <<>>))
    /\ tx_src' = Append(tx_src, tx_i)
    /\ tx_i' = TextFound[3]
    /\ UNCHANGED <<tx_pc, tx_lines>>
    /\ UNCHANGED <<exVars, ddVars, rsVars, sbVars, tmVars, lpVars, gtVars, pkVars, idVars,
                   trVars, clVars>>

\* an iteration on any other line: i += 1
TextPass ==
    /\ tx_pc = "scan"
    /\ tx_i < Len(tx_lines)
    /\ ~(/\ IsTitleCandidate(tx_lines[tx_i + 1])
         /\ TextFound[1] # <<>> \/ TextFound[2] # <<>>)
    /\ tx_i' = tx_i + 1
    /\ UNCHANGED <<tx_pc, tx_lines, tx_events, tx_src>>
    /\ UNCHANGED <<exVars, ddVars, rsVars, sbVars, tmVars, lpVars, gtVars, pkVars, idVars,
                   trVars, clVars>>

\* return events
TextReturn ==
    /\ tx_pc = "scan"
    /\ tx_i >= Len(tx_lines)
    /\ tx_pc' = "returned"
    /\ UNCHANGED <<tx_lines, tx_i, tx_events, tx_src>>
    /\ UNCHANGED <<exVars, ddVars, rsVars, sbVars, tmVars, lpVars, gtVars, pkVars, idVars,
                   trVars, clVars>>

TextNext == TextEmit \/ TextPass \/ TextReturn

SpecText == TextInit /\ [][TextNext]_vars

\* ---------------------------------------------------------------------
\* Record extractor: the url of a card, from its ordinary link or, failing
\* that, from a click on its sub-session control (extract_event_from_session
\* of the resilient scraper, get_url_from_click of the click-url scraper).
\* A url is a sequence of pieces; a url with a scheme has ":" second.
\* ---------------------------------------------------------------------

\* most cards extracted on one frame
MaxCards == 5

AgendaUrl == <<"https", ":", "agenda">>

DetailUrls == {<<"https", ":", "s1">>, <<"https", ":", "s2">>}

\* urlparse(u).scheme
UrlScheme(u) == IF Len(u) >= 2 /\ u[2] = ":" THEN <<u[1]>> ELSE <<>>

\* what the ordinary link of a card gives: nothing, or an absolute url
LinkUrls == {<<>>, <<"https", ":", "d">>, <<"https", ":", "e">>}

\* frame.goto(old) after the click: where the frame is afterwards
AfterGoBack(old, landed, back) ==
    IF old = <<>> THEN landed
    ELSE IF back = "ok" THEN old ELSE landed

\* url after `if url and not urlparse(url).scheme: url = ""`
ClickedUrl(landed) == IF landed # <<>> /\ UrlScheme(landed) = <<>> THEN <<>> ELSE landed

ClickInit ==
    /\ cl_n = 0
    /\ cl_frame_url \in {AgendaUrl, <<>>}
    /\ cl_last = ClickRun(<<>>, FALSE, <<>>, <<>>, <<>>)
    /\ ExtractIdle
    /\ FramesIdle
    /\ RunIdle
    /\ SubIdle
    /\ TimingIdle
    /\ LoopIdle
    /\ ProbeIdle
    /\ SessionIdle
    /\ TextIdle

\* the ordinary link gives a url: the fallback block is not entered
ClickNotNeeded ==
    /\ cl_n < MaxCards
    /\ \E link \in LinkUrls \ {<<>>} :
          cl_last' = ClickRun(link, FALSE, cl_frame_url, cl_frame_url, link)
    /\ cl_n' = cl_n + 1
    /\ UNCHANGED cl_frame_url
    /\ UNCHANGED <<exVars, ddVars, rsVars, sbVars, tmVars, lpVars, gtVars, pkVars, idVars,
                   trVars, txVars>>

\* no url from the link, and the card has no sub-session control (or the
\* query for it raises)
ClickNoControl ==
    /\ cl_n < MaxCards
    /\ cl_last' = ClickRun(<<>>, TRUE, cl_frame_url, cl_frame_url, <<>>)
    /\ cl_n' = cl_n + 1
    /\ UNCHANGED cl_frame_url
    /\ UNCHANGED <<exVars, ddVars, rsVars, sbVars, tmVars, lpVars, gtVars, pkVars, idVars,
                   trVars, txVars>>

\* the click navigates within the wait: the url is read, then frame.goto(old)
\* runs when old is not empty, and its failure is swallowed
ClickNavigates ==
    /\ cl_n < MaxCards
    /\ \E landed \in DetailUrls \ {cl_frame_url}, back \in {"ok", "raises"} :
          /\ cl_last' = ClickRun(<<>>, TRUE, cl_frame_url, landed, ClickedUrl(landed))
          /\ cl_frame_url' = AfterGoBack(cl_frame_url, landed, back)
    /\ cl_n' = cl_n + 1
    /\ UNCHANGED <<exVars, ddVars, rsVars, sbVars, tmVars, lpVars, gtVars, pkVars, idVars,
                   trVars, txVars>>

\* the click raises, or expect_navigation times out, with the frame still
\* where it was or already on another url: the except clause gives no url
\* and nothing navigates back
ClickFails ==
    /\ cl_n < MaxCards
    /\ \E landed \in {cl_frame_url} \cup DetailUrls :
          /\ cl_last' = ClickRun(<<>>, TRUE, cl_frame_url, landed, <<>>)
          /\ cl_frame_url' = landed
    /\ cl_n' = cl_n + 1
    /\ UNCHANGED <<exVars, ddVars, rsVars, sbVars, tmVars, lpVars, gtVars, pkVars, idVars,
                   trVars, txVars>>

ClickNext == ClickNotNeeded \/ ClickNoControl \/ ClickNavigates \/ ClickFails

SpecClick == ClickInit /\ [][ClickNext]_vars

\* ---------------------------------------------------------------------
\* Orchestrator: the calls the two resilient mains make, in order, and the
\* sessions (browser and context) that are open.  A call that raises is
\* written with a trailing "!".
\* ---------------------------------------------------------------------

\* most items (sessions of the agenda, parent rows) of a run
MaxTraceItems == 2

\* --rotate-every
TraceRotateChoices == {0, 1}

\* try: context.close(); browser.close() / except Exception: pass
CloseOutcomes == {"ok", "context_raises", "browser_raises"}

CloseCalls(outcome) ==
    CASE outcome = "ok" -> <<"context.close", "browser.close">>
      [] outcome = "context_raises" -> <<"context.close!">>
      [] outcome = "browser_raises" -> <<"context.close", "browser.close!">>

\* the sessions open after the close block ran on session cur: a call that
\* raised has not closed its object, and after context.close() raised
\* browser.close() is not reached
AfterClose(open, cur, outcome) == IF outcome = "ok" THEN open \ {cur} ELSE open

\* get_whova_frame_or_open_direct returning: with or without page.goto(src)
LocateCalls(direct) == IF direct THEN <<"locate", "open_direct">> ELSE <<"locate">>

\* wait_sessions_with_watchdog: satisfied at the first poll, satisfied or
\* timed out after polls that each end in rate.wait(), or not polling at all
GateRuns ==
    { <<"gate", "gate>0">>,
      <<"gate", "wait", "gate>0">>,
      <<"gate", "wait", "gate=0">>,
      <<"gate", "gate=0">> }

\* if cnt <= 0: backoff.sleep(...)
AfterGate(run) == IF run[Len(run)] = "gate=0" THEN <<"backoff">> ELSE <<>>

\* --checkpoint-every
TraceCheckpointEvery == 1

\* the checkpoint test at the foot of an iteration
TraceCheckpoint(n) ==
    IF TraceCheckpointEvery > 0 /\ n % TraceCheckpointEvery = 0
    THEN <<"checkpoint">> ELSE <<>>

\* where main is after the first page.goto raised: nothing catches it
AfterOpenFails_LogsAndGoesOn == "locate"

AfterOpenFails == "aborted"

SessionInit ==
    /\ tr_variant \in {"events", "subs"}
    /\ tr_calls = <<>>
    /\ tr_open = {}
    /\ lp_pc = "open"
    /\ lp_total = 0
    /\ lp_i = 0
    /\ lp_processed = 0
    /\ lp_rotate_every \in TraceRotateChoices
    /\ lp_rotations = <<>>
    /\ lp_log = <<>>
    /\ lp_saved = FALSE
    /\ lp_exit = -1
    /\ lp_cause = ""
    /\ lp_seen = 0
    /\ lp_frame = NoFrame
    /\ lp_deadline = 0
    /\ lp_ctx = 0
    /\ ExtractIdle
    /\ FramesIdle
    /\ RunIdle
    /\ SubIdle
    /\ TimingIdle
    /\ ProbeIdle
    /\ ClickIdle
    /\ TextIdle

\* the finally clause and the exit of `with sync_playwright()`, which stops
\* the driver and with it every browser it launched
Leaves(calls, pc, cause, code) ==
    /\ \E outcome \in CloseOutcomes :
          tr_calls' = tr_calls \o calls \o CloseCalls(outcome) \o <<"stop">>
    /\ tr_open' = {}
    /\ lp_pc' = pc
    /\ lp_cause' = cause
    /\ lp_exit' = code

\* event scraper: new_context(), page.goto(args.url), rate.wait()
TrOpen ==
    /\ tr_variant = "events"
    /\ lp_pc = "open"
    /\ tr_calls' = tr_calls \o <<"new_context", "goto", "wait">>
    /\ tr_open' = tr_open \cup {lp_ctx + 1}
    /\ lp_ctx' = lp_ctx + 1
    /\ lp_pc' = "locate"
    /\ UNCHANGED <<tr_variant, lp_total, lp_i, lp_processed, lp_rotate_every, lp_rotations,
                   lp_log, lp_saved, lp_exit, lp_cause, lp_seen, lp_frame, lp_deadline>>
    /\ UNCHANGED <<exVars, ddVars, rsVars, sbVars, tmVars, gtVars, pkVars, idVars,
                   clVars, txVars>>

\* event scraper: the first page.goto raises
TrOpenFails ==
    /\ tr_variant = "events"
    /\ lp_pc = "open"
    /\ Leaves(<<"new_context", "goto!">>, AfterOpenFails, "open", 1)
    /\ lp_ctx' = lp_ctx + 1
    /\ UNCHANGED <<tr_variant, lp_total, lp_i, lp_processed, lp_rotate_every, lp_rotations,
                   lp_log, lp_saved, lp_seen, lp_frame, lp_deadline>>
    /\ UNCHANGED <<exVars, ddVars, rsVars, sbVars, tmVars, gtVars, pkVars, idVars,
                   clVars, txVars>>

\* event scraper: the frame locator returns, or raises
TrLocate ==
    /\ tr_variant = "events"
    /\ lp_pc = "locate"
    /\ \/ /\ \E direct \in BOOLEAN : tr_calls' = tr_calls \o LocateCalls(direct)
          /\ lp_pc' = "ready"
          /\ UNCHANGED <<tr_open, lp_cause, lp_exit>>
       \/ Leaves(<<"locate!">>, "aborted", "locate", 1)
    /\ UNCHANGED <<tr_variant, lp_total, lp_i, lp_processed, lp_rotate_every, lp_rotations,
                   lp_log, lp_saved, lp_seen, lp_frame, lp_deadline, lp_ctx>>
    /\ UNCHANGED <<exVars, ddVars, rsVars, sbVars, tmVars, gtVars, pkVars, idVars,
                   clVars, txVars>>

\* event scraper: the watchdog, the backoff when it saw nothing, the count
\* of the sessions, which may raise
TrReady ==
    /\ tr_variant = "events"
    /\ lp_pc = "ready"
    /\ \E run \in GateRuns :
          \/ /\ tr_calls' = tr_calls \o run \o AfterGate(run) \o <<"count">>
             /\ lp_total' \in 0..MaxTraceItems
             /\ lp_pc' = "loop"
             /\ UNCHANGED <<tr_open, lp_cause, lp_exit>>
          \/ /\ Leaves(run \o AfterGate(run) \o <<"count!">>, "aborted", "count", 1)
             /\ UNCHANGED lp_total
    /\ UNCHANGED <<tr_variant, lp_i, lp_processed, lp_rotate_every, lp_rotations,
                   lp_log, lp_saved, lp_seen, lp_frame, lp_deadline, lp_ctx>>
    /\ UNCHANGED <<exVars, ddVars, rsVars, sbVars, tmVars, gtVars, pkVars, idVars,
                   clVars, txVars>>

\* the calls of the rotation block of the event scraper when none raises;
\* the count the watchdog returns there is dropped
TrRotation(outcome, direct, run) ==
    CloseCalls(outcome) \o <<"new_context", "goto", "wait">> \o LocateCalls(direct) \o run

\* the extraction of one item and what follows it in the iteration
TrExtraction(ok) ==
    IF ok THEN <<"extract">> \o TraceCheckpoint(lp_i + 1) ELSE <<"extract!", "backoff">>

\* event scraper: one iteration of the loop
TrItem ==
    /\ tr_variant = "events"
    /\ lp_pc = "loop"
    /\ lp_i < lp_total
    /\ \E ok \in BOOLEAN :
          IF EvRotationDue
          THEN \E outcome \in CloseOutcomes, direct \in BOOLEAN, run \in GateRuns :
                  /\ tr_calls' = tr_calls \o <<"wait">> \o TrRotation(outcome, direct, run)
                                    \o TrExtraction(ok)
                  /\ tr_open' = AfterClose(tr_open, lp_ctx, outcome) \cup {lp_ctx + 1}
                  /\ lp_ctx' = lp_ctx + 1
          ELSE /\ tr_calls' = tr_calls \o <<"wait">> \o TrExtraction(ok)
               /\ UNCHANGED <<tr_open, lp_ctx>>
    /\ lp_i' = lp_i + 1
    /\ UNCHANGED <<tr_variant, lp_pc, lp_total, lp_processed, lp_rotate_every, lp_rotations,
                   lp_log, lp_saved, lp_exit, lp_cause, lp_seen, lp_frame, lp_deadline>>
    /\ UNCHANGED <<exVars, ddVars, rsVars, sbVars, tmVars, gtVars, pkVars, idVars,
                   clVars, txVars>>

\* event scraper: at a rotation page.goto or the frame locator raises
TrRotateFails ==
    /\ tr_variant = "events"
    /\ lp_pc = "loop"
    /\ lp_i < lp_total
    /\ EvRotationDue
    /\ \E outcome \in CloseOutcomes,
          failed \in {<<"goto!">>, <<"goto", "wait", "locate!">>} :
          /\ \E last \in CloseOutcomes :
                tr_calls' = tr_calls \o <<"wait">> \o CloseCalls(outcome)
                               \o <<"new_context">> \o failed \o CloseCalls(last) \o <<"stop">>
          /\ tr_open' = {}
    /\ lp_pc' = "aborted"
    /\ lp_cause' = "rotate"
    /\ lp_exit' = 1
    /\ lp_ctx' = lp_ctx + 1
    /\ UNCHANGED <<tr_variant, lp_total, lp_i, lp_processed, lp_rotate_every, lp_rotations,
                   lp_log, lp_saved, lp_seen, lp_frame, lp_deadline>>
    /\ UNCHANGED <<exVars, ddVars, rsVars, sbVars, tmVars, gtVars, pkVars, idVars,
                   clVars, txVars>>

\* event scraper: save_csv(total_collected, out_path), then the finally clause
TrFinish ==
    /\ tr_variant = "events"
    /\ lp_pc = "loop"
    /\ lp_i = lp_total
    /\ Leaves(<<"save">>, "done", "", 0)
    /\ lp_saved' = TRUE
    /\ UNCHANGED <<tr_variant, lp_total, lp_i, lp_processed, lp_rotate_every, lp_rotations,
                   lp_log, lp_seen, lp_frame, lp_deadline, lp_ctx>>
    /\ UNCHANGED <<exVars, ddVars, rsVars, sbVars, tmVars, gtVars, pkVars, idVars,
                   clVars, txVars>>

\* sub-session scraper: new_context() before the loop
TrSubOpen ==
    /\ tr_variant = "subs"
    /\ lp_pc = "open"
    /\ tr_calls' = tr_calls \o <<"new_context">>
    /\ tr_open' = tr_open \cup {lp_ctx + 1}
    /\ lp_ctx' = lp_ctx + 1
    /\ lp_total' \in 1..MaxTraceItems
    /\ lp_pc' = "loop"
    /\ UNCHANGED <<tr_variant, lp_i, lp_processed, lp_rotate_every, lp_rotations,
                   lp_log, lp_saved, lp_exit, lp_cause, lp_seen, lp_frame, lp_deadline>>
    /\ UNCHANGED <<exVars, ddVars, rsVars, sbVars, tmVars, gtVars, pkVars, idVars,
                   clVars, txVars>>

\* sub-session scraper: a parent of the partial file is passed over
TrSubSkip ==
    /\ tr_variant = "subs"
    /\ lp_pc = "loop"
    /\ lp_i < lp_total
    /\ lp_i' = lp_i + 1
    /\ UNCHANGED <<trVars, lp_pc, lp_total, lp_processed, lp_rotate_every, lp_rotations,
                   lp_log, lp_saved, lp_exit, lp_cause, lp_seen, lp_frame, lp_deadline,
                   lp_ctx>>
    /\ UNCHANGED <<exVars, ddVars, rsVars, sbVars, tmVars, gtVars, pkVars, idVars,
                   clVars, txVars>>

\* the rotation block of the sub-session scraper
TrSubRotation(outcome) ==
    IF SbRotationDue THEN CloseCalls(outcome) \o <<"new_context">> ELSE <<>>

TrSubRotated(outcome) ==
    IF SbRotationDue
    THEN /\ tr_open' = AfterClose(tr_open, lp_ctx, outcome) \cup {lp_ctx + 1}
         /\ lp_ctx' = lp_ctx + 1
    ELSE UNCHANGED <<tr_open, lp_ctx>>

\* sub-session scraper: one iteration whose page.goto returns, or raises
\* PWError (backoff.sleep, rate.wait, continue)
TrSubItem ==
    /\ tr_variant = "subs"
    /\ lp_pc = "loop"
    /\ lp_i < lp_total
    /\ \E outcome \in CloseOutcomes :
          /\ TrSubRotated(outcome)
          /\ \/ /\ tr_calls' = tr_calls \o TrSubRotation(outcome)
                                  \o <<"goto", "wait", "ready", "content">>
                                  \o TraceCheckpoint(lp_processed + 1) \o <<"wait">>
                /\ lp_processed' = lp_processed + 1
             \/ /\ tr_calls' = tr_calls \o TrSubRotation(outcome)
                                  \o <<"goto!", "backoff", "wait">>
                /\ UNCHANGED lp_processed
    /\ lp_i' = lp_i + 1
    /\ UNCHANGED <<tr_variant, lp_pc, lp_total, lp_rotate_every, lp_rotations,
                   lp_log, lp_saved, lp_exit, lp_cause, lp_seen, lp_frame, lp_deadline>>
    /\ UNCHANGED <<exVars, ddVars, rsVars, sbVars, tmVars, gtVars, pkVars, idVars,
                   clVars, txVars>>

\* sub-session scraper: wait_subsessions_ready raises outside any try
TrSubReadyRaises ==
    /\ tr_variant = "subs"
    /\ lp_pc = "loop"
    /\ lp_i < lp_total
    /\ ~SbRotationDue
    /\ Leaves(<<"goto", "wait", "ready!">>, "aborted", "ready", 1)
    /\ UNCHANGED <<tr_variant, lp_total, lp_i, lp_processed, lp_rotate_every, lp_rotations,
                   lp_log, lp_saved, lp_seen, lp_frame, lp_deadline, lp_ctx>>
    /\ UNCHANGED <<exVars, ddVars, rsVars, sbVars, tmVars, gtVars, pkVars, idVars,
                   clVars, txVars>>

\* sub-session scraper: the finally clause, then the save after the `with`
TrSubFinish ==
    /\ tr_variant = "subs"
    /\ lp_pc = "loop"
    /\ lp_i = lp_total
    /\ \E outcome \in CloseOutcomes :
          tr_calls' = tr_calls \o CloseCalls(outcome) \o <<"stop", "save">>
    /\ tr_open' = {}
    /\ lp_pc' = "done"
    /\ lp_exit' = 0
    /\ lp_saved' = TRUE
    /\ UNCHANGED <<tr_variant, lp_total, lp_i, lp_processed, lp_rotate_every, lp_rotations,
                   lp_log, lp_cause, lp_seen, lp_frame, lp_deadline, lp_ctx>>
    /\ UNCHANGED <<exVars, ddVars, rsVars, sbVars, tmVars, gtVars, pkVars, idVars,
                   clVars, txVars>>

SessionNext ==
    \/ TrOpen
    \/ TrOpenFails
    \/ TrLocate
    \/ TrReady
    \/ TrItem
    \/ TrRotateFails
    \/ TrFinish
    \/ TrSubOpen
    \/ TrSubSkip
    \/ TrSubItem
    \/ TrSubReadyRaises
    \/ TrSubFinish

SpecSession == SessionInit /\ [][SessionNext]_vars

\* ---------------------------------------------------------------------
\* Claims on the run-wide pass, the readiness gate, the frame locator and
\* the session identity
\* ---------------------------------------------------------------------

\* the tags of a written row (tags of one character, joined by ";")
TagsOfRow(row) == {<<row.tags[p]>> : p \in {q \in 1..Len(row.tags) : row.tags[q] # ";"}}

\* C21: when two frames yield a record of the same identity key, the row
\* written for the key has every field that is non-empty in either record
\* non-empty, and carries the tags of both records.
C21_Orig_RunWideMerge ==
    ddpc = "saved" =>
        \A k \in 1..Len(out_frames.rows) :
            \A i \in 1..Len(all_events) :
                IdentityKey(all_events[i]) = IdentityKey(out_frames.rows[k]) =>
                    /\ all_events[i].location # <<>> => out_frames.rows[k].location # <<>>
                    /\ all_events[i].url # <<>> => out_frames.rows[k].url # <<>>
                    /\ SeqToSet(all_events[i].tags) \subseteq TagsOfRow(out_frames.rows[k])

\* the gate returned because its time, or its reload budget, ran out
GateTimedOut ==
    /\ gt_pc \in {"returned", "counted"}
    /\ IF gt_variant = "clickurl" THEN gt_tries > ReloadTries ELSE ~LoopCond

\* C22: a gate that returns on timeout returns the largest count any of
\* its queries gave, and 0 only if no query gave a positive count.
C22_Orig_TimeoutReturnsLargest ==
    GateTimedOut => gt_result = Larger(gt_max, 0)

\* "Loading" and the gate's platform marker are both in the text
BothPresent(v, text) == Contains(text, "Loading") /\ Contains(text, PlatformMarker(v))

\* one step of a watchdog gate as C23 wants it
PlaceholderRule ==
    /\ (gt_nticks' = gt_nticks + 1 /\ BothPresent(gt_variant, gt_tick'.body_text)) =>
          /\ ~gt_tick'.queried
          /\ gt_pc' = "poll"
          /\ gt_last' = gt_last
          /\ gt_result' = gt_result
    /\ (gt_pc = "poll" /\ gt_pc' = "returned" /\ gt_result' >= MinSessions) =>
          /\ gt_nticks' = gt_nticks + 1
          /\ ~BothPresent(gt_variant, gt_tick'.body_text)
          /\ gt_tick'.queried
          /\ gt_tick'.cnt = gt_result'

WatchdogPlaceholderRule == gt_variant \in {"resilient", "clickurl"} => PlaceholderRule

\* C23: in the two watchdog gates, a tick that reads a body text holding
\* both "Loading" and the platform marker makes no count query, changes
\* neither `last` nor the result and leaves the gate polling; the gate
\* returns a value of at least min_cnt only on a tick whose text is not
\* the placeholder and whose count query gave that value.
C23_PlaceholderTickSkipsCount ==
    [][WatchdogPlaceholderRule]_vars

\* C23 witness: a watchdog gate returned the minimum on a tick that
\* followed placeholder ticks in the same call
C23_Witness_SatisfiedAfterPlaceholder ==
    /\ gt_variant \in {"resilient", "clickurl"}
    /\ gt_pc = "returned"
    /\ gt_result >= MinSessions
    /\ gt_nticks >= 2
    /\ gt_max = gt_result
    /\ gt_last = gt_result
    /\ gt_elapsed = PlaceholderWait

\* C24: a gate returns only with a count of at least the minimum or when
\* its time or reload budget has run out; no tick with an unchanged count
\* or a failed count query ends it.
C24_Orig_OnlyMinOrTimeoutEnds ==
    gt_pc = "returned" => (gt_result >= MinSessions \/ GateTimedOut)

\* C25: when the click-through watchdog returns, every reload it made was
\* followed by a polling phase on the frame located after it.
C25_Orig_ReloadThenPoll ==
    (gt_variant = "clickurl" /\ gt_pc = "returned") => gt_phases = gt_reloads + 1

\* C26: the click-through watchdog makes at most reload_tries reloads and
\* enters at most reload_tries + 1 polling phases, each of which ends
\* within overall_ms of waiting.
C26_Orig_AtMostReloadTriesReloads ==
    gt_variant = "clickurl" =>
        /\ gt_reloads <= ReloadTries
        /\ gt_phases <= ReloadTries + 1
        /\ gt_elapsed < gt_overall + PlaceholderWait

\* C27: after the watchdog reloaded the page and located the frame again,
\* the caller's count query is made on the frame located last.
C27_Orig_CallerUsesRelocatedFrame ==
    (gt_pc = "counted" /\ gt_reloads > 0) => gt_used = gt_frame

\* C28: the locator returns the first frame with a url hint as soon as an
\* iteration sees one; otherwise it returns a frame inside the loop only if
\* that frame's count is the largest of the iteration and at least the
\* threshold; and when the deadline passes it returns the main frame.
C28_Orig_DeadlineGivesMainFrame ==
    pk_pc = "returned" =>
        IF pk_elapsed < pk_retry
        THEN IF Hinted(pk_frames) # {}
             THEN pk_result = FirstHinted(pk_frames)
             ELSE /\ pk_result \in IdsOf(pk_frames)
                  /\ ItemCount(FrameOf(pk_frames, pk_result)) >= DensityMin
                  /\ \A j \in 1..Len(pk_frames) :
                        ItemCount(pk_frames[j]) <= ItemCount(FrameOf(pk_frames, pk_result))
        ELSE pk_result = MainFrame

\* C29: the k-th session built, counting from zero, has the user agent
\* uas[k mod |uas|] and the proxy proxies[k mod |proxies|]; with no proxies
\* it has no proxy, the proxy cursor stays where it was and the user-agent
\* cursor still advances by one per session.
C29_RoundRobinIdentity ==
    /\ \A k \in 0..(Len(id_sessions) - 1) :
          /\ id_sessions[k + 1].ua = uas[(k % Len(uas)) + 1]
          /\ id_sessions[k + 1].proxy =
                IF proxies = <<>> THEN Nothing ELSE proxies[(k % Len(proxies)) + 1]
    /\ ua_idx = Len(id_sessions)
    /\ prx_idx = IF proxies = <<>> THEN 0 ELSE Len(id_sessions)

\* C29 witness: with three user agents and two proxies both cursors have
\* wrapped, at different sessions
C29_Witness_BothCursorsWrapped ==
    /\ Len(uas) = 3
    /\ Len(proxies) = 2
    /\ Len(id_sessions) >= 5
    /\ id_sessions[3].proxy = id_sessions[1].proxy
    /\ id_sessions[4].ua = id_sessions[1].ua
    /\ id_sessions[4].proxy # id_sessions[1].proxy

\* rotations made before or at item n
RotationsUpTo(n) == {a \in 1..Len(lp_rotations) : lp_rotations[a].at <= n}

\* C30: every item of the record-level run attempted at or after a rotation
\* ran in the session of the latest rotation, after that rotation had
\* navigated, located the frame and run the gate again, and was extracted
\* from the frame that locator call returned.
C30_ExtractionOnRelocatedFrame ==
    \A k \in 1..Len(lp_log) :
        \A a \in RotationsUpTo(lp_log[k].i) :
            (\A b \in RotationsUpTo(lp_log[k].i) : b <= a) =>
                /\ lp_rotations[a].calls = <<"new_context", "goto", "locate", "watchdog">>
                /\ lp_log[k].ctx = lp_rotations[a].ctx
                /\ lp_log[k].frame_ctx = lp_rotations[a].ctx

\* C30 witness: two rotations were made and an item was extracted after
\* each in the event scraper
C30_Witness_ExtractedAfterTwoRotations ==
    /\ lp_deadline > 0
    /\ Len(lp_rotations) = 2
    /\ \E j, k \in 1..Len(lp_log) :
          /\ lp_log[j].kind = "ok"
          /\ lp_log[k].kind = "ok"
          /\ lp_log[j].frame_ctx = 2
          /\ lp_log[k].frame_ctx = 3

\* ------------------------------------------------------------------
\* Claims on the session lifecycle, the pacing, the click fallback, the
\* text scan, the partial file and the frame locator's density path

SubKeysOf(f) == {SubKey(f.rows[k]) : k \in 1..Len(f.rows)}

\* C37: a checkpoint write never removes from the partial file a record key
\* that was in the file when the run started: throughout a run the keys of
\* the partial file include the keys it held at the start of that run.
C37_Orig_PartialKeysOnlyGrow ==
    /\ rpc \in {"loop", "done"} =>
          PartialKeys(ck_at_start) \subseteq PartialKeys(ck_file)
    /\ spc \in {"loop", "done", "aborted"} =>
          SubKeysOf(sub_ck_at_start) \subseteq SubKeysOf(sub_ck_file)

\* C38: in one sub-session run each distinct parent URL is navigated at most
\* once: no parent URL occurs twice among the navigations of the run.
C38_Orig_ParentNavigatedOnce ==
    spc \in {"loop", "done", "aborted"} =>
        \A a, b \in 1..Len(navigated) : a # b => navigated[a] # navigated[b]

\* C39: the frame the density return of pick_whova_frame gives belongs to
\* the enumeration of the iteration that returns it, and its count in that
\* enumeration is at least the threshold; a frame the running maximum held
\* from an earlier enumeration and that has since been replaced is never
\* returned there.
C39_DensityReturnIsCurrent ==
    (pk_pc = "returned" /\ pk_how = "density") =>
        /\ pk_result \in IdsOf(pk_frames)
        /\ ItemCount(FrameOf(pk_frames, pk_result)) >= DensityMin
        /\ pk_result = pk_best

\* C39 witness: the density return happened in a later iteration, when the
\* running best of the earlier enumerations was a frame that the latest
\* enumeration no longer lists
C39_Witness_StaleBestReplaced ==
    /\ pk_pc = "returned"
    /\ pk_how = "density"
    /\ pk_elapsed >= 1
    /\ pk_prior # 0
    /\ pk_prior \notin IdsOf(pk_frames)
    /\ pk_result \in IdsOf(pk_frames)

\* a time or a location is found in one of the up to five lines after line i
FoundWithinFive(i) ==
    \E j \in (i + 1)..(i + 5) :
        /\ j < Len(tx_lines)
        /\ FrameTimeSearch(tx_lines[j + 1]) \/ LocSearch(tx_lines[j + 1])

C36_EmittedRecords ==
    /\ Len(tx_src) = Len(tx_events)
    /\ \A k \in 1..Len(tx_events) :
          LET i == tx_src[k]
              e == tx_events[k]
          IN  /\ i < Len(tx_lines)
              /\ e.title = tx_lines[i + 1]
              /\ TextLen(e.title) >= 8 /\ TextLen(e.title) <= 180
              /\ ~(e.title[1] \in {"L", "T"} /\ e.title[2] = ":")
              /\ FoundWithinFive(i)
              /\ e.title # <<>>
              /\ e.time # <<>> \/ e.location # <<>>
    /\ tx_i <= Len(tx_lines)

C36_IndexIncreases == tx_pc' = "scan" => tx_i' > tx_i

C34_Orig_ClickLeavesFrameInPlace ==
    (cl_n > 0 /\ cl_last.attempted) =>
        /\ cl_last.link = <<>>
        /\ cl_last.landed # cl_last.old => cl_frame_url = cl_last.old

\* C31: at every point of a run at most one session (browser and context)
\* is open, and when the run has ended, normally or by a fatal error, every
\* session created has been closed.
C31_Orig_AtMostOneSessionOpen ==
    /\ Cardinality(tr_open) <= 1
    /\ lp_pc \in {"done", "aborted"} => tr_open = {}

TraceNavigations == {"goto", "goto!", "open_direct"}

TraceExtractions == {"extract", "extract!"}

\* C32: every top-level navigation and every extraction of one item comes
\* after a rate.wait() with no other navigation or extraction between that
\* wait and it.
C32_Orig_WaitBeforeEveryAction ==
    \A k \in 1..Len(tr_calls) :
        tr_calls[k] \in TraceNavigations \cup TraceExtractions =>
            \E w \in 1..(k - 1) :
                /\ tr_calls[w] = "wait"
                /\ \A m \in (w + 1)..(k - 1) :
                      tr_calls[m] \notin TraceNavigations \cup TraceExtractions

\* the calls a backoff sleep answers: the gate returning no item, an
\* extraction that raised and, in the sub-session run, a navigation that
\* raised
BackoffTriggers ==
    IF tr_variant = "subs" THEN {"goto!"} ELSE {"gate=0", "extract!"}

\* C33: a backoff sleep is performed exactly when a trigger occurs: once
\* after the readiness gate returned no item, once after each extraction
\* (in the sub-session run, navigation) that raised, and never otherwise.
C33_Orig_BackoffExactlyOnTriggers ==
    \A k \in 1..Len(tr_calls) :
        /\ tr_calls[k] = "backoff" => (k > 1 /\ tr_calls[k - 1] \in BackoffTriggers)
        /\ tr_calls[k] \in BackoffTriggers =>
              (k < Len(tr_calls) /\ tr_calls[k + 1] = "backoff")

\* C35: when the first navigation of the event scraper fails, the run is
\* over: no item is extracted, neither the partial nor the final output is
\* written, the session is closed and the process ends with a failure.
C35_OpenFailureAborts ==
    (tr_variant = "events" /\ lp_cause = "open") =>
        /\ lp_pc = "aborted"
        /\ lp_exit = 1
        /\ ~lp_saved
        /\ tr_open = {}
        /\ \A k \in 1..Len(tr_calls) :
              tr_calls[k] \notin {"extract", "extract!", "checkpoint", "save", "locate",
                                  "gate", "count"}
        /\ tr_calls[Len(tr_calls)] = "stop"

\* C35 witness: the first navigation failed, context.close() raised in the
\* finally clause, and the run is over with its session closed
C35_Witness_OpenFailedCloseRaised ==
    /\ tr_variant = "events"
    /\ lp_cause = "open"
    /\ lp_pc = "aborted"
    /\ tr_calls = <<"new_context", "goto!", "context.close!", "stop">>
    /\ tr_open = {}

====
